---- MODULE Spec2Model ----
(***************************************************************************)
(* Model of the masumi-payments skill: the PaymentManager (payment index,  *)
(* status monitoring, settlement-service requests in flight) and the       *)
(* credential vault (credential files, encryption of the mnemonic).        *)
(***************************************************************************)
EXTENDS Integers, Sequences, FiniteSets, TLC

(***************************************************************************)
(* Bounds of the model.                                                    *)
(***************************************************************************)
\* direct calls (createPaymentRequest, checkPaymentStatus, submitResult,
\* authorizeRefund) made by the caller in one behaviour
MaxDirect == 2
\* timer ticks (monitoring passes started) in one behaviour
MaxTicks == 2
\* timers registered by startStatusMonitoring in one behaviour
MaxTimers == 1
\* timers startStatusMonitoring may register where close is among the operations
MaxStarts == 2
\* requests awaiting their response at the same time
MaxInFlight == 2
\* the latest time of day a credential file is written at
MaxClock == 3
\* the largest maxRetries withRetry is called with
MaxRetriesArg == 4
\* calls of MasumiPaymentClient.request in one behaviour
MaxRequests == 2
\* the longest plaintext handed to encrypt, in UTF-16 code units
MaxPlaintext == 2
\* how many times the stored blob is altered between encrypt and decrypt
MaxAlterations == 2
\* the longest purchaser identifier and the longest output handed to the hash functions
MaxIdLen == 2
MaxOutputLen == 2
\* the number of PaymentRequest objects the manager receives while a caller looks on
MaxObjects == 3
\* the longest maxWaitMs and pollIntervalMs of waitForPaymentLocked, in units of time
MaxWaitMs == 3
MaxPollIntervalMs == 2

\* blockchain identifiers the settlement service can assign
Ids == {"p1", "p2"}

(***************************************************************************)
(* Payment records (types/payment.ts).                                     *)
(***************************************************************************)
\* onChainState: null (not yet on chain)
Null == "null"
\* the value of existing?.onChainState when the index has no entry
Undefined == "undefined"
\* the on-chain states the settlement service reports in this model
PaymentState == {"FundsLocked", "ResultSubmitted", "Withdrawn",
                 "RefundWithdrawn", "DisputedWithdrawn"}
\* states after which monitoring stops refreshing an entry
completedStates == {"Withdrawn", "RefundWithdrawn", "DisputedWithdrawn"}

\* a string is the sequence of its characters; the string that is not there
\* (an optional field left out, a field of a missing record) is empty
NoString == <<>>

\* the purchaser identifier and the input hash that the settlement service
\* holds for each payment and returns in every record of that payment
Purchasers == [id \in Ids |-> IF id = "p1" THEN <<"b", "1">> ELSE <<"b", "2">>]

\* hashing.ts:24,48  createHash('sha256').update(preImage).digest('hex'):
\* 64 hex characters determined by the pre-image, kept as one unit of a hex string
Sha256(preImage) == [sha256 |-> preImage]

\* the number of characters of a hex string made of digests
HexLength(hex) == 64 * Len(hex)

\* an escaping that leaves the backslash as it is
RECURSIVE JsonEscapeQuotesOnly(_)
JsonEscapeQuotesOnly(str) ==
  IF str = <<>>
    THEN <<>>
    ELSE (IF Head(str) = "\"" THEN <<"\\", Head(str)>> ELSE <<Head(str)>>)
         \o JsonEscapeQuotesOnly(Tail(str))

\* hashing.ts:42  JSON.stringify(outputData).slice(1, -1): the double quote
\* and the backslash get a backslash in front of them, a line feed becomes
\* backslash n
RECURSIVE JsonEscape(_)
JsonEscape(str) ==
  IF str = <<>>
    THEN <<>>
    ELSE (IF Head(str) \in {"\"", "\\"}
            THEN <<"\\", Head(str)>>
            ELSE IF Head(str) = "\n" THEN <<"\\", "n">> ELSE <<Head(str)>>)
         \o JsonEscape(Tail(str))

\* hashing.ts:21,45  `${identifierFromPurchaser};${...}`
PreImage(identifierFromPurchaser, data) == identifierFromPurchaser \o <<";">> \o data

\* hashing.ts:36-49
createMasumiOutputHash(outputData, identifierFromPurchaser) ==
  <<Sha256(PreImage(identifierFromPurchaser, JsonEscape(outputData)))>>

\* the characters object keys are made of, in code-unit order
Alphabet == <<"a", "q", "x">>
Rank(char) == CHOOSE i \in 1..Len(Alphabet) : Alphabet[i] = char

\* hashing.ts:18  canonicaljson.stringify of an object whose keys are single
\* characters and whose values are strings: members sorted by key, no whitespace
RECURSIVE CanonicalMembers(_, _)
CanonicalMembers(object, keys) ==
  IF keys = {}
    THEN <<>>
    ELSE LET k == CHOOSE key \in keys : \A other \in keys : Rank(key) <= Rank(other)
         IN <<"\"", k, "\"", ":", "\"">> \o JsonEscape(object[k]) \o <<"\"">>
            \o (IF keys = {k} THEN <<>> ELSE <<",">>)
            \o CanonicalMembers(object, keys \ {k})

CanonicalJson(object) == <<"{">> \o CanonicalMembers(object, DOMAIN object) \o <<"}">>

\* hashing.ts:13-25
createMasumiInputHash(inputData, identifierFromPurchaser) ==
  <<Sha256(PreImage(identifierFromPurchaser, CanonicalJson(inputData)))>>

\* the input every payment of this model was created with: {"q":"x"}
InputData == [q |-> <<"x">>]

PaymentRequest(bid, state) ==
  [blockchainIdentifier |-> bid, onChainState |-> state, resultHash |-> NoString,
   identifierFromPurchaser |-> IF bid \in Ids THEN Purchasers[bid] ELSE NoString,
   inputHash |-> IF bid \in Ids
                   THEN createMasumiInputHash(InputData, Purchasers[bid])
                   ELSE NoString]

\* the result of Map.get for a key that is not in the Map
NoPayment == PaymentRequest(Undefined, Undefined)

(***************************************************************************)
(* The JavaScript Map pendingPayments: a list of entries in insertion      *)
(* order; set on an existing key replaces the value in place, set on a new *)
(* key appends.                                                            *)
(***************************************************************************)
MapKeys(m) == {m[i].key : i \in 1..Len(m)}

MapHas(m, k) == k \in MapKeys(m)

MapGet(m, k) ==
  IF MapHas(m, k)
    THEN m[CHOOSE i \in 1..Len(m) : m[i].key = k].value
    ELSE NoPayment

MapSet(m, k, v) ==
  IF MapHas(m, k)
    THEN [i \in 1..Len(m) |-> IF m[i].key = k THEN [key |-> k, value |-> v] ELSE m[i]]
    ELSE Append(m, [key |-> k, value |-> v])

(***************************************************************************)
(* State.                                                                  *)
(***************************************************************************)
VARIABLES
  config,                 \* PaymentManager.config
  pendingPayments,        \* PaymentManager.pendingPayments
  statusMonitorInterval,  \* PaymentManager.statusMonitorInterval: a timer handle, 0 = undefined
  isMonitoring,           \* PaymentManager.isMonitoring
  timers,                 \* the interval timers registered with the runtime and not cleared
  timersCreated,          \* number of setInterval calls so far
  passes,                 \* invocations of the interval callback: running or finished
  requests,               \* requests to the settlement service that have not returned to the caller
  directCalls,            \* number of direct calls made so far
  remote,                 \* the settlement service: on-chain state of each payment
  resultHashes,           \* the settlement service: the result hash of each payment
  lastReport,             \* per payment, the state in the latest response the service produced
  log,                    \* per payment, the calls that completed, in order, with what each emitted
  lastCall,               \* the latest direct call and whether it threw before sending a request
  files,                  \* the credential files on disk, by (agentIdentifier, network)
  exported,               \* the backups returned by exportCredentials
  encryptionKey,          \* process.env.MASUMI_ENCRYPTION_KEY
  clock,                  \* the time of day
  retry,                  \* one call of withRetry: its arguments, locals and what it did
  client,                 \* MasumiPaymentClient.request: the call in progress and the results so far
  cipher,                 \* one encrypt and the decrypt of its blob: inputs, the blob, the result
  hashing,                \* the latest call of createMasumiInputHash or createMasumiOutputHash
  view,                   \* the PaymentRequest objects, the index of references, the caller's handles
  tool,                   \* the payment tools: the service, the call in progress, its manager, the result
  wait,                   \* one call of waitForPaymentLocked, and a PaymentManager given the same reports
  provision               \* one call of AutoProvisionService.provision: its step, locals and outcome

pmVars == <<config, pendingPayments, statusMonitorInterval, isMonitoring, timers, timersCreated,
            passes, requests, directCalls, remote, resultHashes, lastReport, log, lastCall>>

vaultVars == <<files, exported, encryptionKey, clock>>

retryVars == <<retry>>

clientVars == <<client>>

cipherVars == <<cipher>>

hashVars == <<hashing>>

viewVars == <<view>>

toolVars == <<tool>>

waitVars == <<wait>>

provisionVars == <<provision>>

vars == <<pmVars, vaultVars, retryVars, clientVars, cipherVars, hashVars, viewVars, toolVars, waitVars, provisionVars>>

\* what the actions of one component leave alone
besidesPm == <<vaultVars, retryVars, clientVars, cipherVars, hashVars, viewVars, toolVars, waitVars, provisionVars>>
besidesVault == <<pmVars, retryVars, clientVars, cipherVars, hashVars, viewVars, toolVars, waitVars, provisionVars>>
besidesRetry == <<pmVars, vaultVars, clientVars, cipherVars, hashVars, viewVars, toolVars, waitVars, provisionVars>>
besidesClient == <<pmVars, vaultVars, retryVars, cipherVars, hashVars, viewVars, toolVars, waitVars, provisionVars>>
besidesCipher == <<pmVars, vaultVars, retryVars, clientVars, hashVars, viewVars, toolVars, waitVars, provisionVars>>
besidesHash == <<pmVars, vaultVars, retryVars, clientVars, cipherVars, viewVars, toolVars, waitVars, provisionVars>>
besidesView == <<pmVars, vaultVars, retryVars, clientVars, cipherVars, hashVars, toolVars, waitVars, provisionVars>>
besidesTool == <<pmVars, vaultVars, retryVars, clientVars, cipherVars, hashVars, viewVars, waitVars, provisionVars>>
besidesWait == <<pmVars, vaultVars, retryVars, clientVars, cipherVars, hashVars, viewVars, toolVars, provisionVars>>
besidesProvisionVault == <<pmVars, retryVars, clientVars, cipherVars, hashVars, viewVars, toolVars, waitVars>>

(***************************************************************************)
(* Events emitted by the PaymentManager (an EventEmitter).                 *)
(***************************************************************************)
Event(type, bid, previousState, newState, error) ==
  [type |-> type, blockchainIdentifier |-> bid, previousState |-> previousState,
   newState |-> newState, error |-> error]

\* previousState || null
OrNull(state) == IF state = Undefined THEN Null ELSE state

\* a change detection that compares the two records by identity: always different
StateDiffersByIdentity(previousState, payment) == TRUE

\* payment.ts:180  previousState !== payment.onChainState
StateDiffers(previousState, payment) == previousState # payment.onChainState

\* payment:completed raised for every completed state instead of Withdrawn alone
SpecificEventsAnyCompleted(payment) ==
  IF payment.onChainState = "FundsLocked"
    THEN <<[type |-> "payment:funds_locked",
            blockchainIdentifier |-> payment.blockchainIdentifier,
            previousState |-> Null, newState |-> Null, error |-> 0]>>
    ELSE IF payment.onChainState \in completedStates
      THEN <<[type |-> "payment:completed",
              blockchainIdentifier |-> payment.blockchainIdentifier,
              previousState |-> Null, newState |-> Null, error |-> 0]>>
      ELSE <<>>

\* payment.ts:190-197  the specific event that follows payment:state_changed
SpecificEvents(payment) ==
  IF payment.onChainState = "FundsLocked"
    THEN <<Event("payment:funds_locked", payment.blockchainIdentifier, Null, Null, 0)>>
    ELSE IF payment.onChainState = "Withdrawn"
      THEN <<Event("payment:completed", payment.blockchainIdentifier, Null, Null, 0)>>
      ELSE <<>>

\* a refresh that treats a completed entry as final and drops later reports
CheckPaymentStatusKeepCompleted(m, blockchainIdentifier, payment) ==
  LET existing == MapGet(m, blockchainIdentifier)
      final == existing.onChainState \in completedStates
  IN [index  |-> IF final THEN m ELSE MapSet(m, blockchainIdentifier, payment),
      seen   |-> IF final THEN m ELSE MapSet(m, blockchainIdentifier, payment),
      events |-> IF ~final /\ existing.onChainState # payment.onChainState
                   THEN <<[type |-> "payment:state_changed",
                           blockchainIdentifier |-> blockchainIdentifier,
                           previousState |-> OrNull(existing.onChainState),
                           newState |-> payment.onChainState, error |-> 0]>>
                   ELSE <<>>]

\* payment.ts:171-200  checkPaymentStatus after the response has arrived:
\* the new index, the events emitted, in order, and the index their listeners
\* see (emit runs the listeners at once: the entry was stored at line 177)
CheckPaymentStatusResume(m, blockchainIdentifier, payment) ==
  LET existing == MapGet(m, blockchainIdentifier)
      previousState == existing.onChainState
      updated == MapSet(m, blockchainIdentifier, payment)
  IN [index  |-> updated,
      seen   |-> updated,
      events |-> IF StateDiffers(previousState, payment)
                   THEN <<Event("payment:state_changed", blockchainIdentifier,
                                OrNull(previousState), payment.onChainState, 0)>>
                        \o SpecificEvents(payment)
                   ELSE <<>>]

\* a createPaymentRequest that emits payment:created before it stores the entry
CreatePaymentRequestEmitFirst(m, payment) ==
  [index  |-> MapSet(m, payment.blockchainIdentifier, payment),
   seen   |-> m,
   events |-> <<[type |-> "payment:created",
                 blockchainIdentifier |-> payment.blockchainIdentifier,
                 previousState |-> Null, newState |-> Null, error |-> 0]>>]

\* payment.ts:127-142  createPaymentRequest after the response has arrived:
\* set at line 131, then emit at line 134
CreatePaymentRequestResume(m, payment) ==
  LET stored == MapSet(m, payment.blockchainIdentifier, payment)
  IN [index  |-> stored,
      seen   |-> stored,
      events |-> <<Event("payment:created", payment.blockchainIdentifier, Null, Null, 0)>>]

\* a createPaymentRequest that does not look at the configuration
AgentConfiguredAlways(cfg) == TRUE

\* payment.ts:89-93  createPaymentRequest goes on only with an agentIdentifier
AgentConfigured(cfg) == cfg.agentIdentifier # "unset"

\* the concatenated decision hash as the value submitted
SubmitResultHashDecision(existingPayment, outputData) ==
  existingPayment.inputHash
    \o createMasumiOutputHash(outputData, existingPayment.identifierFromPurchaser)

\* payment.ts:233,244  submitResultHash: resultHash
SubmitResultHash(existingPayment, outputData) ==
  createMasumiOutputHash(outputData, existingPayment.identifierFromPurchaser)

\* submitResult without the lookup of the tracked entry
SubmitResultUnchecked(m, blockchainIdentifier) == TRUE

\* payment.ts:223-230  submitResult goes on only for a tracked payment
SubmitResultTracked(m, blockchainIdentifier) == MapHas(m, blockchainIdentifier)

\* a submitResult that stores the response envelope, not the payment in it
SubmitResultResumeEnvelope(m, blockchainIdentifier, updatedPayment) ==
  LET envelope == [updatedPayment EXCEPT !.blockchainIdentifier = Undefined]
  IN [index  |-> MapSet(m, blockchainIdentifier, envelope),
      seen   |-> MapSet(m, blockchainIdentifier, envelope),
      events |-> <<Event("payment:result_submitted", blockchainIdentifier, Null, Null, 0)>>]

\* payment.ts:247-262  submitResult after the response has arrived
SubmitResultResume(m, blockchainIdentifier, updatedPayment) ==
  [index  |-> MapSet(m, blockchainIdentifier, updatedPayment),
   seen   |-> MapSet(m, blockchainIdentifier, updatedPayment),
   events |-> <<Event("payment:result_submitted", blockchainIdentifier, Null, Null, 0)>>]

\* payment.ts:288-299  authorizeRefund after the response has arrived
AuthorizeRefundResume(m, blockchainIdentifier, updatedPayment) ==
  [index  |-> MapSet(m, blockchainIdentifier, updatedPayment),
   seen   |-> MapSet(m, blockchainIdentifier, updatedPayment),
   events |-> <<Event("payment:refund_authorized", blockchainIdentifier, Null, Null, 0)>>]

\* a failed call that leaves a half-written entry behind
RejectedHalfWritten(m, blockchainIdentifier) ==
  [index  |-> MapSet(m, blockchainIdentifier, NoPayment),
   seen   |-> m,
   events |-> <<>>]

\* payment.ts:125,162,241,281  await this.client.post(...) rejects: the rest of
\* the method does not run, the index is as it was and nothing is emitted
Rejected(m, blockchainIdentifier) ==
  [index  |-> m,
   seen   |-> m,
   events |-> <<>>]

\* a pass that also skips the entries that are not on chain yet
IsCompletedOrNull(payment) ==
  payment.onChainState = Null \/ payment.onChainState \in completedStates

\* payment.ts:428-431  the monitoring pass skips an entry in a completed state
IsCompleted(payment) ==
  payment.onChainState # Null /\ payment.onChainState \in completedStates

\* a pass without the try/catch: the failure ends the callback
MonitorRethrow(id, error) == [rethrown |-> TRUE, events |-> <<>>]

\* payment.ts:433-438  a failed refresh inside the pass: caught, reported as
\* payment:monitor_error with the entry id and the error, and the loop goes on
MonitorCatch(id, error) ==
  [rethrown |-> FALSE,
   events   |-> <<Event("payment:monitor_error", id, Null, Null, error)>>]

\* payment.ts:426-439  the for-of loop from iterator position i up to the next
\* await: entries in a completed state are skipped; the result is the position
\* of the entry to refresh (0 when the iterator is exhausted) and the ids skipped
RECURSIVE MonitorScan(_, _, _)
MonitorScan(m, i, skipped) ==
  IF i > Len(m)
    THEN [at |-> 0, skipped |-> skipped]
    ELSE IF IsCompleted(m[i].value)
      THEN MonitorScan(m, i + 1, skipped \cup {m[i].key})
      ELSE [at |-> i, skipped |-> skipped]

(***************************************************************************)
(* Requests in flight, the settlement service, the call log.               *)
(***************************************************************************)
\* the outcome of the fetch of ApiClient.post: none yet, a response that is not
\* ok (a server error, status 500, thrown as ApiError), or the data of a 200
Pending == [kind |-> "pending", status |-> 0, payment |-> NoPayment]
Failure == [kind |-> "error", status |-> 500, payment |-> NoPayment]
Success(payment) == [kind |-> "ok", status |-> 200, payment |-> payment]

\* api-client.ts:181  maxRetries: number = 3
DefaultMaxRetries == 3

\* api-client.ts:76-95  the number of times ApiClient.post calls fetch for one
\* request: once, whatever the response (withRetry is not applied to it)
PostFetches == 1

\* a request sent by ApiClient.post with its JSON body; a direct call has
\* caller 0 and its call number n, a refresh made by a monitoring pass has the
\* pass number as caller
Request(n, op, id, caller, body) ==
  [n |-> n, op |-> op, id |-> id, caller |-> caller, body |-> body,
   fetches |-> PostFetches, resp |-> Pending]

\* the part of a request body that depends on the call: submitResultHash
Body(submitResultHash) == [submitResultHash |-> submitResultHash]

\* the payment has not been created at the settlement service
Absent == "absent"

\* the settlement service's lifecycle of a payment
RemoteSuccessors(state) ==
  CASE state = Null              -> {"FundsLocked"}
    [] state = "FundsLocked"     -> {"ResultSubmitted", "RefundWithdrawn"}
    [] state = "ResultSubmitted" -> {"Withdrawn", "DisputedWithdrawn"}
    [] state = "Withdrawn"       -> {"RefundWithdrawn", "DisputedWithdrawn"}
    [] OTHER                     -> {}

\* the states the service can report for a payment whose last report was
\* `state`: the on-chain state moves on by itself, one step between two answers
RemoteNext(state) == {state} \cup RemoteSuccessors(state)

\* one completed call on a payment: what the index held before, what the
\* service reported, what the index holds after, what was emitted and what
\* the index held for the payment while the listeners ran
LogEntry(r, held, stored, events, seen) ==
  [op |-> r.op, n |-> r.n, caller |-> r.caller, ok |-> r.resp.kind = "ok",
   held |-> held, payment |-> r.resp.payment, stored |-> stored, events |-> events,
   seen |-> seen, status |-> r.resp.status, fetches |-> r.fetches]

Held(m, id) == MapGet(m, id).onChainState

(***************************************************************************)
(* The credential vault (utils/encryption.ts, unnamed/part_003).           *)
(***************************************************************************)
Agents == {"agent1"}
Networks == {"Preprod", "Mainnet"}
CredKeys == Agents \X Networks

\* wallets: the mnemonic with the address and verification key derived from it
Wallets ==
  {[mnemonic |-> <<"w", "1">>, walletAddress |-> <<"a", "1">>, walletVkey |-> <<"v", "1">>],
   [mnemonic |-> <<"w", "2">>, walletAddress |-> <<"a", "2">>, walletVkey |-> <<"v", "2">>]}
Mnemonics == {w.mnemonic : w \in Wallets}

\* a configuration value or environment variable that is not set
Unset == "unset"
\* apiKey and registryUrl are optional: JSON.stringify leaves an undefined one out
ApiKeys == {NoString, <<"k", "1">>}
RegistryUrls == {NoString, <<"u", "1">>}
\* updates of updateCredentials: a field that is not in the object is kept
Keep == <<"keep">>

\* the values randomBytes can return
Randoms == {1, 2}

\* encryption.ts:23-35
DefaultKey == "default-encryption-key-change-me-in-production"
GetEncryptionKey(env) == IF env = Unset THEN DefaultKey ELSE env

\* encryption.ts:15-17  scrypt: the key is determined by password and salt
DeriveKey(password, salt) == <<password, salt>>

\* UTF-16 code units: a high surrogate followed by a low surrogate is one
\* character, a surrogate anywhere else is unpaired
HighSurrogate == "D800"
LowSurrogate == "DC00"
Replacement == "FFFD"

\* encryption.ts:59  cipher.update(plaintext, 'utf8', ...): the string as UTF-8,
\* one element per encoded character; an unpaired surrogate has no UTF-8 form
\* and is written as U+FFFD
RECURSIVE Utf8Encode(_)
Utf8Encode(str) ==
  IF str = <<>>
    THEN <<>>
    ELSE IF Head(str) = HighSurrogate /\ Len(str) > 1 /\ str[2] = LowSurrogate
      THEN <<[pair |-> <<str[1], str[2]>>]>> \o Utf8Encode(Tail(Tail(str)))
      ELSE IF Head(str) \in {HighSurrogate, LowSurrogate}
        THEN <<[unit |-> Replacement]>> \o Utf8Encode(Tail(str))
        ELSE <<[unit |-> Head(str)]>> \o Utf8Encode(Tail(str))

\* encryption.ts:106-107  decipher.update(..., 'hex', 'utf8'): UTF-8 back to a string
RECURSIVE Utf8Decode(_)
Utf8Decode(bytes) ==
  IF bytes = <<>>
    THEN <<>>
    ELSE (IF "pair" \in DOMAIN Head(bytes) THEN Head(bytes).pair ELSE <<Head(bytes).unit>>)
         \o Utf8Decode(Tail(bytes))

\* AES-256 in counter mode: the ciphertext of the bytes under key and iv
AesCtr(key, iv, bytes) == [key |-> key, iv |-> iv, bytes |-> bytes]

\* encryption.ts:63  cipher.getAuthTag(): the GCM tag binds key, iv and ciphertext
GcmTag(key, iv, encrypted) == [key |-> key, iv |-> iv, over |-> encrypted]

\* encryption.ts:45-74  the blob is salt + iv + tag + encrypted; hex and base64
\* are one-to-one on it
Encrypt(plaintext, env, salt, iv) ==
  LET key == DeriveKey(GetEncryptionKey(env), salt)
      encrypted == AesCtr(key, iv, Utf8Encode(plaintext))
  IN [salt |-> salt, iv |-> iv, tag |-> GcmTag(key, iv, encrypted), encrypted |-> encrypted]

\* a decrypt that never verifies the tag (no decipher.final): whatever the
\* counter mode yields is returned
DecryptUnauthenticated(encryptedData, env) ==
  [ok |-> TRUE, plaintext |-> Utf8Decode(encryptedData.encrypted.bytes)]

\* encryption.ts:83-110  decipher.final() throws unless the tag is the one of
\* this key, iv and ciphertext
Decrypt(encryptedData, env) ==
  LET key == DeriveKey(GetEncryptionKey(env), encryptedData.salt)
  IN IF encryptedData.tag = GcmTag(key, encryptedData.iv, encryptedData.encrypted)
       THEN [ok |-> TRUE, plaintext |-> Utf8Decode(encryptedData.encrypted.bytes)]
       ELSE [ok |-> FALSE, plaintext |-> NoString]

NoFile == [exists |-> FALSE]

File(content, mode) == [exists |-> TRUE, content |-> content, mode |-> mode]

\* fs.writeFile(path, data, {mode}): the mode is used only when the file is created
WriteFile(fs, k, content, mode) ==
  [fs EXCEPT ![k] = File(content, IF fs[k].exists THEN fs[k].mode ELSE mode)]

\* fs.chmod
Chmod(fs, k, mode) == [fs EXCEPT ![k] = File(fs[k].content, mode)]

\* part_003:80-91  the record saveCredentials serializes
StoredCredentials(agentIdentifier, network, wallet, encryptedMnemonic, apiKey, registryUrl, time) ==
  [version |-> "1.0", agentIdentifier |-> agentIdentifier, network |-> network,
   walletAddress |-> wallet.walletAddress, walletVkey |-> wallet.walletVkey,
   encryptedMnemonic |-> encryptedMnemonic, apiKey |-> apiKey,
   registryUrl |-> registryUrl, createdAt |-> time, updatedAt |-> time,
   mnemonic |-> NoString]

\* part_003:115-141  loadCredentials: the stored record with the
\* decrypted mnemonic added to it
LoadCredentials(fs, k, env) ==
  IF ~fs[k].exists
    THEN [ok |-> FALSE]
    ELSE LET decrypted == Decrypt(fs[k].content.encryptedMnemonic, env)
         IN IF decrypted.ok
              THEN [ok |-> TRUE,
                    creds |-> [fs[k].content EXCEPT !.mnemonic = decrypted.plaintext]]
              ELSE [ok |-> FALSE]

\* part_003:178-182  { ...creds, ...updates, updatedAt }
Updated(creds, updates, time) ==
  [creds EXCEPT !.apiKey = IF updates.apiKey = Keep THEN @ ELSE updates.apiKey,
                !.registryUrl = IF updates.registryUrl = Keep THEN @ ELSE updates.registryUrl,
                !.updatedAt = time]

VaultInit ==
  /\ files = [k \in CredKeys |-> NoFile]
  /\ exported = {}
  /\ encryptionKey = Unset
  /\ clock = 1

\* part_003:62-106
SaveCredentials(agentIdentifier, network, wallet, apiKey, registryUrl) ==
  /\ clock < MaxClock
  /\ \E salt \in Randoms, iv \in Randoms :
       LET k == <<agentIdentifier, network>>
           storedCreds == StoredCredentials(agentIdentifier, network, wallet,
                            Encrypt(wallet.mnemonic, encryptionKey, salt, iv),
                            apiKey, registryUrl, clock)
       IN files' = Chmod(WriteFile(files, k, storedCreds, "0600"), k, "0600")
  /\ clock' = clock + 1
  /\ UNCHANGED <<exported, encryptionKey>>

\* part_003:171-191
UpdateCredentials(agentIdentifier, network, updates) ==
  /\ clock < MaxClock
  /\ LET k == <<agentIdentifier, network>>
         loaded == LoadCredentials(files, k, encryptionKey)
     IN IF loaded.ok
          THEN files' = WriteFile(files, k, Updated(loaded.creds, updates, clock), "0600")
          ELSE UNCHANGED files
  /\ clock' = clock + 1
  /\ UNCHANGED <<exported, encryptionKey>>

\* part_003:199-213
DeleteCredentials(agentIdentifier, network) ==
  /\ files' = [files EXCEPT ![<<agentIdentifier, network>>] = NoFile]
  /\ UNCHANGED <<exported, encryptionKey, clock>>

\* part_003:250-258
ExportCredentials(agentIdentifier, network) ==
  /\ files[<<agentIdentifier, network>>].exists
  /\ exported' = exported \cup {files[<<agentIdentifier, network>>].content}
  /\ UNCHANGED <<files, encryptionKey, clock>>

\* part_003:266-276
ImportCredentials(credentialsJson) ==
  /\ credentialsJson \in exported
  /\ LET k == <<credentialsJson.agentIdentifier, credentialsJson.network>>
     IN files' = Chmod(WriteFile(files, k, credentialsJson, "0600"), k, "0600")
  /\ UNCHANGED <<exported, encryptionKey, clock>>

\* the permissions a credential file can have: owner only, or readable by all
Modes == {"0600", "0644"}

\* the permissions of a credential file change outside the vault's operations
\* (a restore from a backup, a chmod by the operator)
ChangeMode(k, mode) ==
  /\ files[k].exists
  /\ files[k].mode # mode
  /\ files' = Chmod(files, k, mode)
  /\ UNCHANGED <<exported, encryptionKey, clock>>

\* encryption.ts:24  the operator sets or changes MASUMI_ENCRYPTION_KEY
SetEncryptionKey(key) ==
  /\ key # encryptionKey
  /\ encryptionKey' = key
  /\ UNCHANGED <<files, exported, clock>>

VaultNext ==
  \/ \E a \in Agents, n \in Networks, w \in Wallets, key \in ApiKeys, url \in RegistryUrls :
       SaveCredentials(a, n, w, key, url) /\ UNCHANGED besidesVault
  \/ \E a \in Agents, n \in Networks :
       \E updates \in [apiKey : ApiKeys \cup {Keep}, registryUrl : RegistryUrls \cup {Keep}] :
         UpdateCredentials(a, n, updates) /\ UNCHANGED besidesVault
  \/ \E a \in Agents, n \in Networks : DeleteCredentials(a, n) /\ UNCHANGED besidesVault
  \/ \E a \in Agents, n \in Networks : ExportCredentials(a, n) /\ UNCHANGED besidesVault
  \/ \E json \in exported : ImportCredentials(json) /\ UNCHANGED besidesVault
  \/ \E key \in {Unset, "key-a"} : SetEncryptionKey(key) /\ UNCHANGED besidesVault

\* the vault's operations on files whose permissions also change outside them;
\* records are saved without the optional apiKey and registryUrl
PermNext ==
  \/ \E a \in Agents, n \in Networks, w \in Wallets :
       SaveCredentials(a, n, w, NoString, NoString) /\ UNCHANGED besidesVault
  \/ \E a \in Agents, n \in Networks :
       \E updates \in [apiKey : ApiKeys \cup {Keep}, registryUrl : RegistryUrls \cup {Keep}] :
         UpdateCredentials(a, n, updates) /\ UNCHANGED besidesVault
  \/ \E a \in Agents, n \in Networks : DeleteCredentials(a, n) /\ UNCHANGED besidesVault
  \/ \E a \in Agents, n \in Networks : ExportCredentials(a, n) /\ UNCHANGED besidesVault
  \/ \E json \in exported : ImportCredentials(json) /\ UNCHANGED besidesVault
  \/ \E key \in {Unset, "key-a"} : SetEncryptionKey(key) /\ UNCHANGED besidesVault
  \/ \E k \in CredKeys, mode \in Modes : ChangeMode(k, mode) /\ UNCHANGED besidesVault

(***************************************************************************)
(* encrypt and decrypt on their own (utils/encryption.ts): one plaintext   *)
(* is encrypted, the blob may be altered where it is stored and the        *)
(* environment's key may change, then the blob is decrypted.               *)
(***************************************************************************)
\* the code units plaintexts are made of
CodeUnits == {"w", HighSurrogate, LowSurrogate}

\* the strings handed to encrypt
Plaintexts == UNION {[1..n -> CodeUnits] : n \in 0..MaxPlaintext}

\* the values of MASUMI_ENCRYPTION_KEY
Envs == {Unset, DefaultKey, "key-a"}

Fields == {"salt", "iv", "tag", "encrypted"}

NoBlob == Encrypt(NoString, Unset, 0, 0)

CipherIdle ==
  [status |-> "idle", plaintext |-> NoString, env |-> Unset, original |-> NoBlob,
   blob |-> NoBlob, alterations |-> 0, result |-> [ok |-> FALSE, plaintext |-> NoString]]

CipherInit == cipher = CipherIdle

\* the blobs of the other secrets kept under the same key: randomBytes gives
\* each its own salt and iv
OtherBlobs ==
  {Encrypt(<<"w">>, cipher.env, salt, iv) :
     <<salt, iv>> \in (Randoms \X Randoms) \ {<<cipher.original.salt, cipher.original.iv>>}}

\* a tag made without the key
ForgedTag(blob) == GcmTag(DeriveKey("guess", blob.salt), blob.iv, blob.encrypted)

\* what a field of the stored blob can be overwritten with: the field of
\* another blob, the field as it first was, a made-up tag, a ciphertext with
\* bits flipped (in counter mode the bytes it decrypts to change with them)
Alterations(field) ==
  {b[field] : b \in OtherBlobs \cup {cipher.original}}
    \cup (IF field = "tag" THEN {ForgedTag(cipher.blob)} ELSE {})
    \cup (IF field = "encrypted"
            THEN {[cipher.blob.encrypted EXCEPT !.bytes = Utf8Encode(<<"w", "w", "w">>)]}
            ELSE {})

\* encryption.ts:45-74
CipherEncrypt(plaintext, salt, iv) ==
  /\ cipher.status = "idle"
  /\ LET blob == Encrypt(plaintext, encryptionKey, salt, iv)
     IN cipher' = [cipher EXCEPT !.status = "encrypted", !.plaintext = plaintext,
                                 !.env = encryptionKey, !.original = blob, !.blob = blob]
  /\ UNCHANGED besidesCipher

\* the stored blob is overwritten in one of its four parts
CipherAlter(field, value) ==
  /\ cipher.status = "encrypted"
  /\ cipher.alterations < MaxAlterations
  /\ value # cipher.blob[field]
  /\ cipher' = [cipher EXCEPT !.blob = [@ EXCEPT ![field] = value],
                              !.alterations = @ + 1]
  /\ UNCHANGED besidesCipher

\* encryption.ts:83-110
CipherDecrypt ==
  /\ cipher.status = "encrypted"
  /\ cipher' = [cipher EXCEPT !.status = "decrypted",
                              !.result = Decrypt(cipher.blob, encryptionKey)]
  /\ UNCHANGED besidesCipher

CipherNext ==
  \/ \E plaintext \in Plaintexts, salt \in Randoms, iv \in Randoms :
       CipherEncrypt(plaintext, salt, iv)
  \/ \E field \in Fields : \E value \in Alterations(field) : CipherAlter(field, value)
  \/ CipherDecrypt
  \/ \E key \in Envs :
       cipher.status # "decrypted" /\ SetEncryptionKey(key) /\ UNCHANGED besidesVault

(***************************************************************************)
(* The hash functions on their own (utils/hashing.ts).                     *)
(***************************************************************************)
\* the output payloads submitResult is called with: 42 and a"x
Outputs == {<<"4", "2">>, <<"a", "\"", "x">>}

\* identifierFromPurchaser: string, any string the caller passes
PurchaserIds == UNION {[1..n -> {"a", "b", ";"}] : n \in 1..MaxIdLen}

\* outputData: string
OutputStrings == UNION {[1..n -> {"b", "n", ";", "\"", "\\", "\n"}] : n \in 0..MaxOutputLen}

\* inputData: objects with string values
InputObjects == {InputData, [a |-> <<";">>], [a |-> <<"x">>, q |-> <<"a">>]}

NoHash == [fn |-> "none", identifierFromPurchaser |-> NoString, hash |-> NoString]

HashInit == hashing = NoHash

\* hashing.ts:36-49
HashOutput(outputData, identifierFromPurchaser) ==
  /\ hashing' = [fn |-> "output", identifierFromPurchaser |-> identifierFromPurchaser,
                 outputData |-> outputData,
                 hash |-> createMasumiOutputHash(outputData, identifierFromPurchaser)]
  /\ UNCHANGED besidesHash

\* hashing.ts:13-25
HashInput(inputData, identifierFromPurchaser) ==
  /\ hashing' = [fn |-> "input", identifierFromPurchaser |-> identifierFromPurchaser,
                 inputData |-> inputData,
                 hash |-> createMasumiInputHash(inputData, identifierFromPurchaser)]
  /\ UNCHANGED besidesHash

HashNext ==
  \/ \E outputData \in OutputStrings \cup Outputs, id \in PurchaserIds :
       HashOutput(outputData, id)
  \/ \E inputData \in InputObjects, id \in PurchaserIds : HashInput(inputData, id)

(***************************************************************************)
(* The index as a caller sees it (managers/payment.ts:160-201, 462-474):   *)
(* PaymentRequest objects live on the heap, the Map pendingPayments holds  *)
(* references to them, and a caller holds whatever the manager handed out. *)
(***************************************************************************)
\* no object: undefined
NoRef == 0

\* the on-chain states of the responses in this part
ViewStates == {Null, "FundsLocked", "Withdrawn"}

\* heap: the objects, a reference is a position; index: pendingPayments, its
\* values are references; copy: the Map the caller got from getPendingPayments;
\* held: the references the caller got; step: the latest step
ViewIdle ==
  [heap |-> <<>>, index |-> <<>>, copied |-> FALSE, copy |-> <<>>, held |-> {},
   step |-> "none"]

ViewInit == view = ViewIdle

\* Map.prototype.delete
MapDelete(m, k) == SelectSeq(m, LAMBDA e : e.key # k)

\* payment.ts:171-200  checkPaymentStatus after the response has arrived: the
\* response object itself is stored (177), handed to the listeners (185, 188,
\* 192, 195) and returned (200)
ViewCheckPaymentStatus(blockchainIdentifier, state) ==
  /\ Len(view.heap) < MaxObjects
  /\ LET payment == PaymentRequest(blockchainIdentifier, state)
         ref == Len(view.heap) + 1
     IN view' = [view EXCEPT !.heap = Append(@, payment),
                             !.index = MapSet(@, blockchainIdentifier, ref),
                             !.held = @ \cup {ref},
                             !.step = "checkPaymentStatus"]
  /\ UNCHANGED besidesView

\* payment.ts:462-464  getPendingPayments: new Map(this.pendingPayments), a
\* new Map with the same keys and the same objects as values
ViewGetPendingPayments ==
  /\ view' = [view EXCEPT !.copied = TRUE, !.copy = view.index,
                          !.held = @ \cup {view.index[i].value : i \in 1..Len(view.index)},
                          !.step = "getPendingPayments"]
  /\ UNCHANGED besidesView

\* payment.ts:472-474  getPayment: this.pendingPayments.get(id), the stored
\* object or undefined
ViewGetPayment(blockchainIdentifier) ==
  /\ view' = [view EXCEPT !.held = IF MapHas(view.index, blockchainIdentifier)
                                     THEN @ \cup {MapGet(view.index, blockchainIdentifier)}
                                     ELSE @,
                          !.step = "getPayment"]
  /\ UNCHANGED besidesView

\* the caller sets a key of the Map it got from getPendingPayments
CallerMapSet(k, ref) ==
  /\ view.copied
  /\ ref \in view.held
  /\ view' = [view EXCEPT !.copy = MapSet(@, k, ref), !.step = "caller:set"]
  /\ UNCHANGED besidesView

\* the caller deletes a key of the Map it got from getPendingPayments
CallerMapDelete(k) ==
  /\ view.copied
  /\ MapHas(view.copy, k)
  /\ view' = [view EXCEPT !.copy = MapDelete(@, k), !.step = "caller:delete"]
  /\ UNCHANGED besidesView

\* the caller assigns onChainState of a record it got
CallerWrite(ref, state) ==
  /\ ref \in view.held
  /\ view' = [view EXCEPT !.heap[ref].onChainState = state, !.step = "caller:write"]
  /\ UNCHANGED besidesView

ViewNext ==
  \/ \E id \in Ids, state \in ViewStates : ViewCheckPaymentStatus(id, state)
  \/ ViewGetPendingPayments
  \/ \E id \in Ids : ViewGetPayment(id)
  \/ \E id \in Ids, ref \in 1..MaxObjects : CallerMapSet(id, ref)
  \/ \E id \in Ids : CallerMapDelete(id)
  \/ \E ref \in 1..MaxObjects, state \in ViewStates : CallerWrite(ref, state)

(***************************************************************************)
(* The payment tools (tools/index.ts:280-409): every call loads the        *)
(* configuration, makes a PaymentManager of its own, calls one method of   *)
(* it, closes it and returns an object with success true or false.         *)
(***************************************************************************)
\* managers/payment.ts:39  pendingPayments = new Map() of a new PaymentManager
NewIndex == <<>>

\* no tool is running
ToolNoCall == [name |-> "none", op |-> "none", id |-> "none", index |-> NewIndex,
               known |-> FALSE, resp |-> Pending]

\* no tool has returned
ToolNoResult == [name |-> "none", id |-> "none", success |-> FALSE, sent |-> FALSE,
                 rejected |-> FALSE, known |-> FALSE]

\* remote: the settlement service; created: the payments a tool has created or
\* checked with success; call: the tool that is running; result: what the
\* latest tool returned, whether it sent a request and whether the service
\* rejected it
ToolIdle ==
  [remote |-> [id \in Ids |-> Absent], created |-> {}, call |-> ToolNoCall,
   result |-> ToolNoResult]

ToolInit == tool = ToolIdle

\* the tool awaits the method's request with the manager it made
ToolAwait(name, op, id) ==
  tool' = [tool EXCEPT !.call = [name |-> name, op |-> op, id |-> id, index |-> NewIndex,
                                 known |-> id \in tool.created, resp |-> Pending]]

\* the catch block: { success: false, ... } without a request
ToolThrows(name, id) ==
  tool' = [tool EXCEPT !.result = [name |-> name, id |-> id, success |-> FALSE,
                                   sent |-> FALSE, rejected |-> FALSE,
                                   known |-> id \in tool.created]]

\* tools/index.ts:280-332  masumi_create_payment up to the request
ToolCreatePayment(cfg) ==
  /\ tool.call = ToolNoCall
  /\ IF AgentConfigured(cfg)
       THEN ToolAwait("masumi_create_payment", "createPaymentRequest", "new")
       ELSE ToolThrows("masumi_create_payment", "new")
  /\ UNCHANGED besidesTool

\* tools/index.ts:342-369  masumi_check_payment up to the request
ToolCheckPayment(blockchainIdentifier) ==
  /\ tool.call = ToolNoCall
  /\ ToolAwait("masumi_check_payment", "checkPaymentStatus", blockchainIdentifier)
  /\ UNCHANGED besidesTool

\* tools/index.ts:379-409  masumi_complete_payment up to the request:
\* submitResult (payment.ts:222-230) looks the payment up in the manager the
\* tool has just made
ToolCompletePayment(blockchainIdentifier) ==
  /\ tool.call = ToolNoCall
  /\ IF SubmitResultTracked(NewIndex, blockchainIdentifier)
       THEN ToolAwait("masumi_complete_payment", "submitResult", blockchainIdentifier)
       ELSE ToolThrows("masumi_complete_payment", blockchainIdentifier)
  /\ UNCHANGED besidesTool

\* the settlement service answers the request of the running tool
ToolService ==
  /\ tool.call # ToolNoCall
  /\ tool.call.resp = Pending
  /\ \/ /\ tool.call.op = "createPaymentRequest"
        /\ \E id \in Ids :
             /\ tool.remote[id] = Absent
             /\ tool' = [tool EXCEPT !.remote[id] = Null,
                                     !.call.resp = Success(PaymentRequest(id, Null))]
     \/ /\ tool.call.op \in {"checkPaymentStatus", "submitResult"}
        /\ tool.call.id \in Ids
        /\ tool.remote[tool.call.id] # Absent
        /\ \E state \in RemoteNext(tool.remote[tool.call.id]) :
             tool' = [tool EXCEPT !.remote[tool.call.id] = state,
                                  !.call.resp = Success(PaymentRequest(tool.call.id, state))]
     \/ tool' = [tool EXCEPT !.call.resp = Failure]
  /\ UNCHANGED besidesTool

\* the rest of the tool: the method resumes, manager.close() clears the
\* index, the tool returns
ToolReturn ==
  /\ tool.call # ToolNoCall
  /\ tool.call.resp # Pending
  /\ LET call == tool.call
         ok == call.resp.kind = "ok"
         id == IF ok THEN call.resp.payment.blockchainIdentifier ELSE call.id
     IN tool' = [tool EXCEPT
          !.call = ToolNoCall,
          !.created = IF ok /\ call.op \in {"createPaymentRequest", "checkPaymentStatus"}
                        THEN @ \cup {id} ELSE @,
          !.result = [name |-> call.name, id |-> id, success |-> ok, sent |-> TRUE,
                      rejected |-> ~ok, known |-> call.known]]
  /\ UNCHANGED besidesTool

ToolNext ==
  \/ \E cfg \in {[agentIdentifier |-> a] : a \in Agents \cup {Unset}} : ToolCreatePayment(cfg)
  \/ \E id \in Ids : ToolCheckPayment(id)
  \/ \E id \in Ids : ToolCompletePayment(id)
  \/ ToolService
  \/ ToolReturn

(***************************************************************************)
(* withRetry (utils/api-client.ts:179-209).                                *)
(***************************************************************************)
\* what fn can reject with: an ApiError with the status of the response, the
\* error of a fetch that found no server, the error of an aborted fetch
ApiError(statusCode) == [name |-> "ApiError", statusCode |-> statusCode]
FetchError == [name |-> "FetchError", statusCode |-> 0]
AbortError == [name |-> "AbortError", statusCode |-> 0]
FnErrors == {ApiError(400), ApiError(499), ApiError(500), FetchError, AbortError}

\* what fn can resolve with
FnValues == {"v1", "v2"}

\* let lastError: Error | undefined
NoError == [name |-> "none", statusCode |-> 0]
\* new Error('Max retries exceeded')
MaxRetriesExceeded == [name |-> "Error: Max retries exceeded", statusCode |-> 0]

InitialDelays == {1, 1000}

RECURSIVE Pow2(_)
Pow2(n) == IF n = 0 THEN 1 ELSE 2 * Pow2(n - 1)

\* a retry that keeps the first error it saw
KeepFirstError(lastError, error) == IF lastError = NoError THEN error ELSE lastError

\* api-client.ts:190  lastError = error instanceof Error ? error : ...
LastError(lastError, error) == error

\* a 4xx test that misses status 400
IsClientErrorAbove400(error) ==
  error.name = "ApiError" /\ error.statusCode > 400 /\ error.statusCode < 500

\* api-client.ts:193
IsClientError(error) ==
  error.name = "ApiError" /\ error.statusCode >= 400 /\ error.statusCode < 500

\* a last-attempt test that is one attempt late
IsLastAttemptLate(attempt, maxRetries) == attempt = maxRetries

\* api-client.ts:198
IsLastAttempt(attempt, maxRetries) == attempt = maxRetries - 1

\* api-client.ts:203
Delay(initialDelayMs, attempt) == initialDelayMs * Pow2(attempt)

RetryIdle ==
  [status |-> "idle", maxRetries |-> 0, initialDelayMs |-> 0, attempt |-> 0,
   lastError |-> NoError, calls |-> 0, errors |-> <<>>, delays |-> <<>>,
   returned |-> "none", value |-> "none", error |-> NoError]

RetryInit == retry = RetryIdle

\* api-client.ts:186,208  the head of the for loop: fn is called for the next
\* attempt, or the loop is over and the function throws
LoopHead(rec) ==
  IF rec.attempt < rec.maxRetries
    THEN [rec EXCEPT !.status = "calling", !.calls = @ + 1]
    ELSE [rec EXCEPT !.status = "rejected",
                     !.error = IF rec.lastError # NoError THEN rec.lastError
                                                          ELSE MaxRetriesExceeded]

\* api-client.ts:179-188  withRetry is called: up to the first await
WithRetry(maxRetries, initialDelayMs) ==
  /\ retry.status = "idle"
  /\ retry' = LoopHead([RetryIdle EXCEPT !.maxRetries = maxRetries,
                                         !.initialDelayMs = initialDelayMs])

\* api-client.ts:188  fn resolves: return await fn()
FnResolves(value) ==
  /\ retry.status = "calling"
  /\ retry' = [retry EXCEPT !.status = "resolved", !.returned = value, !.value = value]

\* api-client.ts:189-205  fn rejects: the catch block up to its throw or await
FnRejects(error) ==
  /\ retry.status = "calling"
  /\ LET caught == [retry EXCEPT !.lastError = LastError(@, error),
                                 !.errors = Append(@, error)]
     IN retry' =
          IF IsClientError(error)
            THEN [caught EXCEPT !.status = "rejected", !.error = error]
            ELSE IF IsLastAttempt(caught.attempt, caught.maxRetries)
              THEN [caught EXCEPT !.status = "rejected", !.error = caught.lastError]
              ELSE [caught EXCEPT !.status = "waiting",
                                  !.delays = Append(@, Delay(caught.initialDelayMs,
                                                             caught.attempt))]

\* api-client.ts:204,186  the backoff timer fires: attempt++ and the loop head
BackoffElapses ==
  /\ retry.status = "waiting"
  /\ retry' = LoopHead([retry EXCEPT !.attempt = @ + 1])

RetryNext ==
  \/ \E maxRetries \in 0..MaxRetriesArg, initialDelayMs \in InitialDelays :
       WithRetry(maxRetries, initialDelayMs) /\ UNCHANGED besidesRetry
  \/ \E value \in FnValues : FnResolves(value) /\ UNCHANGED besidesRetry
  \/ \E error \in FnErrors : FnRejects(error) /\ UNCHANGED besidesRetry
  \/ BackoffElapses /\ UNCHANGED besidesRetry

(***************************************************************************)
(* MasumiPaymentClient.request (sokosumi/utils/payments.ts:211-295).       *)
(***************************************************************************)
\* the statuses the payment service answers with
HttpStatuses == {200, 401, 404, 500}

NoMasumiError == [type |-> "none", message |-> "none"]

\* payments.ts:271
Ok(data) == [ok |-> TRUE, data |-> data, error |-> NoMasumiError]

Err(type, message) == [ok |-> FALSE, data |-> "none", error |-> [type |-> type, message |-> message]]

\* payments.ts:242-267  the error value of a response that is not ok
HttpError(status) ==
  CASE status = 401 -> Err("unauthorized", "Invalid Masumi admin API key")
    [] status = 404 -> Err("agent_not_found", "Agent not found in Masumi registry")
    [] OTHER        -> Err("payment_failed", "Payment service error")

\* payments.ts:272-294  the error value of the catch block
Caught(name) ==
  IF name = "AbortError"
    THEN Err("network_error", "Request timeout")
    ELSE Err("service_unavailable", "Cannot reach Masumi payment service")

\* payments.ts:237,273  clearTimeout(timeoutId): a timer that has not fired is cancelled
ClearTimeout(timer) == IF timer = "armed" THEN "cleared" ELSE timer

ClientIdle ==
  [status |-> "idle", method |-> "none", timer |-> "none", aborted |-> FALSE,
   elapsed |-> FALSE, httpStatus |-> 0, result |-> Ok("none"), results |-> <<>>]

ClientInit == client = ClientIdle

\* payments.ts:216-235  request is called: the AbortController, the deadline
\* timer, the headers, up to await fetch
ClientRequest(method) ==
  /\ client.status \in {"idle", "returned"}
  /\ Len(client.results) < MaxRequests
  /\ client' = [ClientIdle EXCEPT !.status = "fetching", !.method = method,
                                  !.timer = "armed", !.results = client.results]

\* payments.ts:219  the deadline passes: if the timer is still set, its
\* callback aborts the controller
DeadlineElapses ==
  /\ client.status \in {"fetching", "readingText", "readingJson"}
  /\ ~client.elapsed
  /\ client' = IF client.timer = "armed"
                 THEN [client EXCEPT !.elapsed = TRUE, !.timer = "fired", !.aborted = TRUE]
                 ELSE [client EXCEPT !.elapsed = TRUE]

Return(rec, result) ==
  [rec EXCEPT !.status = "returned", !.result = result, !.results = Append(@, result)]

\* payments.ts:230-240,270  the response head arrives: fetch resolves, the
\* timer is cleared, and the body is awaited (text() of an error, json() of a 200)
FetchResolves(status) ==
  /\ client.status = "fetching"
  /\ ~client.aborted
  /\ client' = [client EXCEPT !.timer = ClearTimeout(@), !.httpStatus = status,
                              !.status = IF status = 200 THEN "readingJson"
                                                         ELSE "readingText"]

\* payments.ts:272-294  fetch rejects: with AbortError once the controller has
\* aborted, with a connection error otherwise
FetchRejects ==
  /\ client.status = "fetching"
  /\ LET name == IF client.aborted THEN "AbortError" ELSE "FetchError"
     IN client' = Return([client EXCEPT !.timer = ClearTimeout(@)], Caught(name))

\* payments.ts:240-267  response.text() settles (a failure reads as 'Unknown error')
TextRead ==
  /\ client.status = "readingText"
  /\ client' = Return(client, HttpError(client.httpStatus))

\* payments.ts:270-271  response.json() resolves
JsonRead ==
  /\ client.status = "readingJson"
  /\ client' = Return(client, Ok("data"))

\* payments.ts:270,272-294  response.json() rejects: the body breaks off or is no JSON
JsonFails ==
  /\ client.status = "readingJson"
  /\ client' = Return([client EXCEPT !.timer = ClearTimeout(@)], Caught("FetchError"))

ClientNext ==
  \/ \E method \in {"GET", "POST"} : ClientRequest(method) /\ UNCHANGED besidesClient
  \/ DeadlineElapses /\ UNCHANGED besidesClient
  \/ \E status \in HttpStatuses : FetchResolves(status) /\ UNCHANGED besidesClient
  \/ FetchRejects /\ UNCHANGED besidesClient
  \/ TextRead /\ UNCHANGED besidesClient
  \/ JsonRead /\ UNCHANGED besidesClient
  \/ JsonFails /\ UNCHANGED besidesClient

(***************************************************************************)
(* MasumiPaymentClient.waitForPaymentLocked (sokosumi/utils/payments.ts:   *)
(* 154-206), and a PaymentManager whose checkPaymentStatus is given the    *)
(* same reports of the settlement service.                                 *)
(***************************************************************************)
\* the payment that is waited for
WaitedId == "p1"

\* payments.ts:186-192
PaymentRefunded == Err("payment_failed", "Payment was refunded")

\* payments.ts:199-205
WaitTimeout == Err("timeout", "Payment not locked within maxWaitMs")

\* what getPaymentStatus returns when the request fails (payments.ts:242-294)
StatusErrors ==
  {HttpError(status) : status \in HttpStatuses \ {200}}
    \cup {Caught("AbortError"), Caught("FetchError")}

\* payments.ts:168  while (Date.now() - startTime < maxWaitMs)
LoopGoesOn(elapsed, maxWaitMs) == elapsed < maxWaitMs

\* a poller that goes on polling after a refund
WaitOutcomeRefundIgnored(statusResult) ==
  IF ~statusResult.ok
    THEN [returns |-> TRUE, result |-> statusResult]
    ELSE IF statusResult.data.onChainState = "FundsLocked"
      THEN [returns |-> TRUE, result |-> Ok(statusResult.data)]
      ELSE [returns |-> FALSE, result |-> statusResult]

\* a poller that tries again after a failed status request
WaitOutcomeRetriesErrors(statusResult) ==
  IF ~statusResult.ok
    THEN [returns |-> FALSE, result |-> statusResult]
    ELSE IF statusResult.data.onChainState = "FundsLocked"
      THEN [returns |-> TRUE, result |-> Ok(statusResult.data)]
      ELSE IF statusResult.data.onChainState = "RefundWithdrawn"
        THEN [returns |-> TRUE, result |-> PaymentRefunded]
        ELSE [returns |-> FALSE, result |-> statusResult]

\* payments.ts:171-193  what one poll leads to: a return with its value, or
\* the wait before the next poll
WaitOutcome(statusResult) ==
  IF ~statusResult.ok
    THEN [returns |-> TRUE, result |-> statusResult]
    ELSE IF statusResult.data.onChainState = "FundsLocked"
      THEN [returns |-> TRUE, result |-> Ok(statusResult.data)]
      ELSE IF statusResult.data.onChainState = "RefundWithdrawn"
        THEN [returns |-> TRUE, result |-> PaymentRefunded]
        ELSE [returns |-> FALSE, result |-> statusResult]

\* what the poll recorded in reports said: the state, or "error"
ReportOf(statusResult) ==
  IF statusResult.ok THEN statusResult.data.onChainState ELSE "error"

\* status: where the call is; elapsed: Date.now() - startTime; remote: the
\* state at the service; reports: what each poll said; result: the value
\* returned; index, events, threw: the PaymentManager's index, what its
\* checkPaymentStatus emitted for the latest report and whether it threw
WaitIdle ==
  [status |-> "idle", maxWaitMs |-> 0, pollIntervalMs |-> 0, elapsed |-> 0,
   remote |-> Null, reports |-> <<>>, result |-> Ok("none"),
   index |-> NewIndex, events |-> <<>>, threw |-> FALSE]

WaitInit == wait = WaitIdle

\* payments.ts:154-169  the call up to its first poll
WaitForPaymentLocked(maxWaitMs, pollIntervalMs, state) ==
  /\ wait.status = "idle"
  /\ wait' = [wait EXCEPT !.maxWaitMs = maxWaitMs, !.pollIntervalMs = pollIntervalMs,
                          !.remote = state,
                          !.status = IF LoopGoesOn(0, maxWaitMs) THEN "polling" ELSE "returned",
                          !.result = IF LoopGoesOn(0, maxWaitMs) THEN @ ELSE WaitTimeout]
  /\ UNCHANGED besidesWait

\* payments.ts:169-196  getPaymentStatus settles after d units of time, the
\* loop body runs up to its return or to the timer it sets; the manager's
\* checkPaymentStatus gets the same result (payment.ts:171-200, 433-438)
PollSettles(d, statusResult) ==
  /\ wait.status = "polling"
  /\ LET outcome == WaitOutcome(statusResult)
         eff == IF statusResult.ok
                  THEN CheckPaymentStatusResume(wait.index, WaitedId, statusResult.data)
                  ELSE Rejected(wait.index, WaitedId)
     IN wait' = [wait EXCEPT
          !.elapsed = @ + d,
          !.remote = IF statusResult.ok THEN statusResult.data.onChainState ELSE @,
          !.reports = Append(@, ReportOf(statusResult)),
          !.status = IF outcome.returns THEN "returned" ELSE "sleeping",
          !.result = outcome.result,
          !.index = eff.index,
          !.events = IF statusResult.ok THEN eff.events
                                        ELSE MonitorCatch(WaitedId, 1).events,
          !.threw = ~statusResult.ok]
  /\ UNCHANGED besidesWait

\* payments.ts:196,168,199-205  the timer of the wait fires: the loop test,
\* then the next poll or the timeout
TimerFires ==
  /\ wait.status = "sleeping"
  /\ LET elapsed == wait.elapsed + wait.pollIntervalMs
     IN wait' = [wait EXCEPT
          !.elapsed = elapsed,
          !.status = IF LoopGoesOn(elapsed, wait.maxWaitMs) THEN "polling" ELSE "returned",
          !.result = IF LoopGoesOn(elapsed, wait.maxWaitMs) THEN @ ELSE WaitTimeout]
  /\ UNCHANGED besidesWait

PollNext ==
  \/ \E maxWaitMs \in 1..MaxWaitMs, pollIntervalMs \in 1..MaxPollIntervalMs :
       \E state \in {Null} \cup PaymentState :
         WaitForPaymentLocked(maxWaitMs, pollIntervalMs, state)
  \/ \E d \in {0, 1}, state \in RemoteNext(wait.remote) :
       PollSettles(d, Ok(PaymentRequest(WaitedId, state)))
  \/ \E d \in {0, 1}, error \in StatusErrors : PollSettles(d, error)
  \/ TimerFires

(***************************************************************************)
(* Auto-provisioning (services/auto-provision.ts).                         *)
(***************************************************************************)
\* agent names, as code units; an empty or missing name is falsy
AgentNames == {NoString, <<"B", "-">>, <<"a">>}
\* params.pricingTier, or none given
PricingTiers == {"undefined", "free", "basic", "premium"}
MoltbookTokens == {NoString, <<"t">>}
ServiceUrls == {NoString, <<"u", "1">>}

\* Date.now().toString(36) for the times of the model
Base36Digits == <<"1", "2", "3">>
Base36(time) == <<Base36Digits[time]>>

\* the code units of the model that are in a-z0-9 once in lower case
AlphaNumeric == {"a", "b", "e", "g", "n", "t", "1", "2", "3"}
LowerCaseOf == [A |-> "a", B |-> "b"]
ToLowerCase(c) == IF c \in DOMAIN LowerCaseOf THEN LowerCaseOf[c] ELSE c

\* auto-provision.ts:147-149  lower case, every unit outside a-z0-9 becomes "_"
GenerateAgentId(name, time) ==
  <<"agent_">>
  \o [i \in DOMAIN name |->
        IF ToLowerCase(name[i]) \in AlphaNumeric THEN ToLowerCase(name[i]) ELSE "_"]
  \o <<"_">> \o Base36(time)

\* auto-provision.ts:116-142
ResolveIdentityOf(params, cfg, time) ==
  IF params.agentName # NoString
    THEN [id |-> GenerateAgentId(params.agentName, time), name |-> params.agentName]
    ELSE IF cfg.agentName # NoString
      THEN [id |-> GenerateAgentId(cfg.agentName, time), name |-> cfg.agentName]
      ELSE LET defaultName == <<"A", "g", "e", "n", "t", "-">> \o Base36(time)
           IN [id |-> GenerateAgentId(defaultName, time), name |-> defaultName]

\* auto-provision.ts:283-302  the tier defaults to 'free'
GetDefaultPricing(tier) ==
  CASE tier = "basic" -> [pricingType |-> "Fixed", amounts |-> <<"1000000">>]
    [] tier = "premium" -> [pricingType |-> "Fixed", amounts |-> <<"5000000">>]
    [] OTHER -> [pricingType |-> "Free", amounts |-> <<>>]

\* auto-provision.ts:57-64  the constructor throws without a service URL
ServiceUrlOf(cfg) ==
  IF cfg.registryServiceUrl # NoString THEN cfg.registryServiceUrl ELSE cfg.paymentServiceUrl

\* auto-provision.ts:192-195  what registerAgent hands to new RegistryManager:
\* the network and a key, and no URL
RegistryManagerConfig(cfg) ==
  [network |-> cfg.network,
   registryApiKey |-> IF cfg.registryApiKey # NoString THEN cfg.registryApiKey
                      ELSE cfg.paymentApiKey,
   registryServiceUrl |-> NoString,
   paymentServiceUrl |-> NoString]

\* registry.ts:157-165  the RegistryManager constructor throws without a URL
RegistryManagerThrows(registryConfig) == ServiceUrlOf(registryConfig) = NoString

NoWallet == [mnemonic |-> NoString, walletAddress |-> NoString, walletVkey |-> NoString]
NoIdentity == [id |-> NoString, name |-> NoString]
NoRegistration == [agentIdentifier |-> "none", state |-> "none"]
NoParams == [agentName |-> NoString, pricingTier |-> "undefined", moltbookToken |-> NoString]
NoConfig ==
  [network |-> "none", paymentServiceUrl |-> NoString, registryServiceUrl |-> NoString,
   paymentApiKey |-> NoString, registryApiKey |-> NoString, agentName |-> NoString]

\* the configurations and parameters the service is called with
ProvisionConfigs ==
  [network : Networks, paymentServiceUrl : ServiceUrls, registryServiceUrl : {NoString},
   paymentApiKey : ApiKeys, registryApiKey : {NoString}, agentName : AgentNames]
ProvisionParams ==
  [agentName : AgentNames, pricingTier : PricingTiers, moltbookToken : MoltbookTokens]

ProvisionIdle ==
  [pc |-> "idle", config |-> NoConfig, params |-> NoParams, identity |-> NoIdentity,
   wallet |-> NoWallet, pricing |-> GetDefaultPricing("undefined"),
   registration |-> NoRegistration, steps |-> <<>>, error |-> "none",
   credentialsPath |-> <<"none", "none">>]

ProvisionInit == provision = ProvisionIdle

\* the steps of provision leave the vault alone, but for secureStore
ProvisionRejects(error) ==
  /\ provision' = [provision EXCEPT !.pc = "rejected", !.error = error]
  /\ UNCHANGED vaultVars

\* auto-provision.ts:53-71, 78  new AutoProvisionService(config), then provision(params)
ProvisionCall(cfg, params) ==
  /\ provision.pc = "idle"
  /\ provision' = [provision EXCEPT
       !.config = cfg, !.params = params,
       !.pc = IF ServiceUrlOf(cfg) = NoString THEN "rejected" ELSE "resolveIdentity",
       !.error = IF ServiceUrlOf(cfg) = NoString
                   THEN "Payment service URL is required" ELSE "none"]
  /\ UNCHANGED vaultVars
  /\ UNCHANGED besidesProvisionVault

\* auto-provision.ts:80, 116-142
ResolveIdentity ==
  /\ provision' = [provision EXCEPT
       !.identity = ResolveIdentityOf(provision.params, provision.config, clock),
       !.steps = Append(@, "resolveIdentity"),
       !.pc = "provisionWallet"]
  /\ UNCHANGED vaultVars

\* auto-provision.ts:83, 161-178  generateWallet returns a wallet or throws
\* (wallet-generator.ts:59-61)
ProvisionWallet ==
  \/ /\ \E wallet \in Wallets :
          provision' = [provision EXCEPT
            !.wallet = wallet,
            !.steps = Append(@, "provisionWallet"),
            !.pc = "registerAgent"]
     /\ UNCHANGED vaultVars
  \/ ProvisionRejects("Failed to derive wallet address from mnemonic")

\* auto-provision.ts:86-91, 183-195  the pricing, then new RegistryManager
RegisterAgent ==
  /\ IF RegistryManagerThrows(RegistryManagerConfig(provision.config))
       THEN provision' = [provision EXCEPT
              !.pricing = GetDefaultPricing(provision.params.pricingTier),
              !.steps = Append(@, "registerAgent"),
              !.pc = "rejected",
              !.error = "Registry service URL not configured"]
       ELSE provision' = [provision EXCEPT
              !.pricing = GetDefaultPricing(provision.params.pricingTier),
              !.steps = Append(@, "registerAgent"),
              !.pc = "registry"]
  /\ UNCHANGED vaultVars

\* auto-provision.ts:197-223  the registry answers or the request fails; the
\* manager is closed either way
RegistryResponds ==
  \/ /\ \E agentIdentifier \in Agents :
          provision' = [provision EXCEPT
            !.registration = [agentIdentifier |-> agentIdentifier,
                              state |-> "RegistrationRequested"],
            !.pc = IF provision.params.moltbookToken # NoString
                     THEN "linkMoltBook" ELSE "secureStore"]
     /\ UNCHANGED vaultVars
  \/ ProvisionRejects("Request failed")

\* auto-provision.ts:94-96, 229-236  a placeholder: it logs and returns
LinkMoltBook ==
  /\ provision' = [provision EXCEPT
       !.steps = Append(@, "linkMoltBook"), !.pc = "secureStore"]
  /\ UNCHANGED vaultVars

\* auto-provision.ts:99-111, 246-268
SecureStore ==
  /\ SaveCredentials(provision.registration.agentIdentifier, provision.config.network,
       provision.wallet,
       IF provision.config.paymentApiKey # NoString
         THEN provision.config.paymentApiKey ELSE <<"auto-generated">>,
       <<"https://sokosumi.com/agents/", provision.registration.agentIdentifier>>)
  /\ provision' = [provision EXCEPT
       !.steps = Append(@, "secureStore"),
       !.credentialsPath =
          <<provision.registration.agentIdentifier, provision.config.network>>,
       !.pc = "returned"]

\* auto-provision.ts:78-112  provision runs its next step
ProvisionStep ==
  /\ provision.pc \notin {"idle", "returned", "rejected"}
  /\ CASE provision.pc = "resolveIdentity" -> ResolveIdentity
       [] provision.pc = "provisionWallet" -> ProvisionWallet
       [] provision.pc = "registerAgent" -> RegisterAgent
       [] provision.pc = "registry" -> RegistryResponds
       [] provision.pc = "linkMoltBook" -> LinkMoltBook
       [] provision.pc = "secureStore" -> SecureStore
  /\ UNCHANGED besidesProvisionVault

\* the time of day moves on between the steps
ProvisionClockTicks ==
  /\ clock < MaxClock
  /\ clock' = clock + 1
  /\ UNCHANGED <<files, exported, encryptionKey, provision>>
  /\ UNCHANGED besidesProvisionVault

ProvisionNext ==
  \/ \E cfg \in ProvisionConfigs, params \in ProvisionParams : ProvisionCall(cfg, params)
  \/ ProvisionStep
  \/ ProvisionClockTicks

NoCall == [op |-> "none", id |-> "none", threw |-> FALSE]

NewPass ==
  [status |-> "running", pos |-> 1, startKeys |-> {},
   attempted |-> {}, skipped |-> {}, failed |-> {}]

PaymentInit ==
  /\ config \in {[agentIdentifier |-> a] : a \in Agents \cup {Unset}}
  /\ pendingPayments = <<>>
  /\ statusMonitorInterval = 0
  /\ isMonitoring = FALSE
  /\ timers = {}
  /\ timersCreated = 0
  /\ passes = <<>>
  /\ requests = {}
  /\ directCalls = 0
  /\ remote = [id \in Ids |-> IF id = "p1" THEN Null ELSE Absent]
  /\ resultHashes = [id \in Ids |-> NoString]
  /\ lastReport = [id \in Ids |-> Undefined]
  /\ log = [id \in Ids |-> <<>>]
  /\ lastCall = NoCall

Init == PaymentInit /\ VaultInit /\ RetryInit /\ ClientInit /\ CipherInit /\ HashInit /\ ViewInit /\ ToolInit /\ WaitInit /\ ProvisionInit

(***************************************************************************)
(* Direct calls: the part of each method up to its first await.            *)
(***************************************************************************)
SendDirect(op, id, body) ==
  /\ directCalls < MaxDirect
  /\ Cardinality(requests) < MaxInFlight
  /\ directCalls' = directCalls + 1
  /\ requests' = requests \cup {Request(directCalls + 1, op, id, 0, body)}
  /\ lastCall' = [op |-> op, id |-> id, threw |-> FALSE]
  /\ UNCHANGED <<pendingPayments, statusMonitorInterval, isMonitoring, timers,
                 timersCreated, passes, remote, resultHashes, lastReport, log, config>>

\* payment.ts:88-125
CreatePaymentRequest ==
  IF AgentConfigured(config)
    THEN SendDirect("createPaymentRequest", "new", Body(NoString))
    ELSE /\ directCalls < MaxDirect
         /\ directCalls' = directCalls + 1
         /\ lastCall' = [op |-> "createPaymentRequest", id |-> "new", threw |-> TRUE]
         /\ UNCHANGED <<pendingPayments, statusMonitorInterval, isMonitoring, timers,
                        timersCreated, passes, requests, remote, resultHashes,
                        lastReport, log, config>>

\* payment.ts:160-168
CheckPaymentStatus(id) == SendDirect("checkPaymentStatus", id, Body(NoString))

\* payment.ts:222-245
SubmitResult(id, outputData) ==
  IF SubmitResultTracked(pendingPayments, id)
    THEN SendDirect("submitResult", id,
                    Body(SubmitResultHash(MapGet(pendingPayments, id), outputData)))
    ELSE /\ directCalls < MaxDirect
         /\ directCalls' = directCalls + 1
         /\ lastCall' = [op |-> "submitResult", id |-> id, threw |-> TRUE]
         /\ UNCHANGED <<pendingPayments, statusMonitorInterval, isMonitoring, timers,
                        timersCreated, passes, requests, remote, resultHashes,
                        lastReport, log, config>>

\* payment.ts:279-286
AuthorizeRefund(id) == SendDirect("authorizeRefund", id, Body(NoString))

(***************************************************************************)
(* The settlement service.                                                 *)
(***************************************************************************)
Respond(r, resp) == requests' = (requests \ {r}) \cup {[r EXCEPT !.resp = resp]}

\* the record the service returns: the payment with the result hash it holds
Reported(bid, state, resultHash) ==
  [PaymentRequest(bid, state) EXCEPT !.resultHash = resultHash]

\* the service answers a request with the payment's current record, or fails;
\* it takes the result hash from the first submit-result it accepts
ServiceRespond(r) ==
  /\ r \in requests
  /\ r.resp = Pending
  /\ \/ /\ r.op = "createPaymentRequest"
        /\ \E id \in Ids :
             /\ remote[id] = Absent
             /\ remote' = [remote EXCEPT ![id] = Null]
             /\ lastReport' = [lastReport EXCEPT ![id] = Null]
             /\ Respond(r, Success(PaymentRequest(id, Null)))
        /\ resultHashes' = resultHashes
     \/ /\ r.op \in {"checkPaymentStatus", "submitResult", "authorizeRefund"}
        /\ remote[r.id] # Absent
        /\ resultHashes' =
             IF r.op = "submitResult" /\ resultHashes[r.id] = NoString
               THEN [resultHashes EXCEPT ![r.id] = r.body.submitResultHash]
               ELSE resultHashes
        /\ \E state \in RemoteNext(remote[r.id]) :
             /\ remote' = [remote EXCEPT ![r.id] = state]
             /\ lastReport' = [lastReport EXCEPT ![r.id] = state]
             /\ Respond(r, Success(Reported(r.id, state, resultHashes'[r.id])))
     \/ /\ Respond(r, Failure)
        /\ remote' = remote /\ resultHashes' = resultHashes /\ lastReport' = lastReport
  /\ UNCHANGED <<pendingPayments, statusMonitorInterval, isMonitoring, timers,
                 timersCreated, passes, directCalls, log, lastCall, config>>

(***************************************************************************)
(* Status monitoring.                                                      *)
(***************************************************************************)
\* payment.ts:413-443  with at most `limit` timers registered in one behaviour
StartStatusMonitoringUpTo(limit) ==
  /\ IF isMonitoring
       THEN UNCHANGED <<statusMonitorInterval, isMonitoring, timers, timersCreated>>
       ELSE /\ timersCreated < limit
            /\ isMonitoring' = TRUE
            /\ timersCreated' = timersCreated + 1
            /\ statusMonitorInterval' = timersCreated + 1
            /\ timers' = (timers \ {statusMonitorInterval}) \cup {timersCreated + 1}
  /\ UNCHANGED <<pendingPayments, passes, requests, directCalls,
                 remote, resultHashes, lastReport, log, lastCall, config>>

\* payment.ts:413-443
StartStatusMonitoring == StartStatusMonitoringUpTo(MaxTimers)

\* a stop that resets the fields and leaves the timer registered
StopStatusMonitoringKeepsTimer ==
  /\ IF statusMonitorInterval # 0
       THEN /\ timers' = timers
            /\ statusMonitorInterval' = 0
            /\ isMonitoring' = FALSE
       ELSE UNCHANGED <<statusMonitorInterval, isMonitoring, timers>>
  /\ UNCHANGED <<pendingPayments, timersCreated, passes, requests,
                 directCalls, remote, resultHashes, lastReport, log, lastCall, config>>

\* payment.ts:448-455
StopStatusMonitoring ==
  /\ IF statusMonitorInterval # 0
       THEN /\ timers' = timers \ {statusMonitorInterval}
            /\ statusMonitorInterval' = 0
            /\ isMonitoring' = FALSE
       ELSE UNCHANGED <<statusMonitorInterval, isMonitoring, timers>>
  /\ UNCHANGED <<pendingPayments, timersCreated, passes, requests,
                 directCalls, remote, resultHashes, lastReport, log, lastCall, config>>

\* Map.prototype.clear under a pass that is iterating: the entries it has not
\* reached are gone, and the entries set afterwards are all ahead of it
IteratorAfterClear(pass) == IF pass.status = "running" THEN [pass EXCEPT !.pos = 1] ELSE pass

\* a close that resets the monitoring fields without clearing the interval
CloseLeavesTimer ==
  /\ directCalls < MaxDirect
  /\ directCalls' = directCalls + 1
  /\ statusMonitorInterval' = 0
  /\ isMonitoring' = FALSE
  /\ pendingPayments' = <<>>
  /\ passes' = [p \in DOMAIN passes |-> IteratorAfterClear(passes[p])]
  /\ lastCall' = [op |-> "close", id |-> "none", threw |-> FALSE]
  /\ UNCHANGED <<timers, timersCreated, requests, remote, resultHashes, lastReport, log,
                 config>>

\* payment.ts:506-511  close: stopStatusMonitoring(), pendingPayments.clear(),
\* removeAllListeners(); no await, so it runs in one step
Close ==
  /\ directCalls < MaxDirect
  /\ directCalls' = directCalls + 1
  /\ IF statusMonitorInterval # 0
       THEN /\ timers' = timers \ {statusMonitorInterval}
            /\ statusMonitorInterval' = 0
            /\ isMonitoring' = FALSE
       ELSE UNCHANGED <<statusMonitorInterval, isMonitoring, timers>>
  /\ pendingPayments' = <<>>
  /\ passes' = [p \in DOMAIN passes |-> IteratorAfterClear(passes[p])]
  /\ lastCall' = [op |-> "close", id |-> "none", threw |-> FALSE]
  /\ UNCHANGED <<timersCreated, requests, remote, resultHashes, lastReport, log, config>>

\* payment.ts:426-439  pass number p runs from its iterator position to its
\* next await (inside checkPaymentStatus) or to its end
PassRun(m, pass, p) ==
  LET scan == MonitorScan(m, pass.pos, {})
  IN IF scan.at = 0
       THEN [pass |-> [pass EXCEPT !.status = "done", !.pos = Len(m) + 1,
                                   !.skipped = @ \cup scan.skipped],
             send |-> {}]
       ELSE [pass |-> [pass EXCEPT !.pos = scan.at + 1,
                                   !.skipped = @ \cup scan.skipped,
                                   !.attempted = @ \cup {m[scan.at].key}],
             send |-> {Request(0, "checkPaymentStatus", m[scan.at].key, p, Body(NoString))}]

\* payment.ts:425  the interval fires: the callback starts a pass
Tick(t) ==
  /\ t \in timers
  /\ Len(passes) < MaxTicks
  /\ Cardinality(requests) < MaxInFlight
  /\ LET p == Len(passes) + 1
         start == [NewPass EXCEPT !.startKeys =
                     {k \in MapKeys(pendingPayments) : ~IsCompleted(MapGet(pendingPayments, k))}]
         run == PassRun(pendingPayments, start, p)
     IN /\ passes' = Append(passes, run.pass)
        /\ requests' = requests \cup run.send
  /\ UNCHANGED <<pendingPayments, statusMonitorInterval, isMonitoring, timers,
                 timersCreated, directCalls, remote, resultHashes, lastReport, log, lastCall, config>>

(***************************************************************************)
(* A response returns to its caller: the method resumes after its await.   *)
(***************************************************************************)
\* a continuation that runs only while monitoring is on
ResumeIfMonitoring(r) ==
  IF ~isMonitoring
    THEN [index |-> pendingPayments, seen |-> pendingPayments, events |-> <<>>]
    ELSE CASE r.op = "createPaymentRequest" ->
                CreatePaymentRequestResume(pendingPayments, r.resp.payment)
           [] r.op = "checkPaymentStatus" ->
                CheckPaymentStatusResume(pendingPayments, r.id, r.resp.payment)
           [] r.op = "submitResult" ->
                SubmitResultResume(pendingPayments, r.id, r.resp.payment)
           [] r.op = "authorizeRefund" ->
                AuthorizeRefundResume(pendingPayments, r.id, r.resp.payment)

\* the continuation of the method that awaited the request
Resume(r) ==
  CASE r.op = "createPaymentRequest" ->
         CreatePaymentRequestResume(pendingPayments, r.resp.payment)
    [] r.op = "checkPaymentStatus" ->
         CheckPaymentStatusResume(pendingPayments, r.id, r.resp.payment)
    [] r.op = "submitResult" ->
         SubmitResultResume(pendingPayments, r.id, r.resp.payment)
    [] r.op = "authorizeRefund" ->
         AuthorizeRefundResume(pendingPayments, r.id, r.resp.payment)

\* the response of a direct call arrives
DeliverDirect(r) ==
  /\ r \in requests
  /\ r.caller = 0
  /\ r.resp # Pending
  /\ requests' = requests \ {r}
  /\ LET ok == r.resp.kind = "ok"
         eff == IF ok THEN Resume(r) ELSE Rejected(pendingPayments, r.id)
         id == IF ok THEN r.resp.payment.blockchainIdentifier ELSE r.id
     IN /\ pendingPayments' = eff.index
        /\ log' = IF id \in Ids
                    THEN [log EXCEPT ![id] = Append(@,
                            LogEntry(r, Held(pendingPayments, id), MapGet(eff.index, id),
                                     eff.events, MapGet(eff.seen, id)))]
                    ELSE log
  /\ UNCHANGED <<statusMonitorInterval, isMonitoring, timers, timersCreated, passes,
                 directCalls, remote, resultHashes, lastReport, lastCall, config>>

\* the response of a refresh made by a monitoring pass arrives:
\* checkPaymentStatus resumes, then the pass loop (payment.ts:433-439)
DeliverToPass(r) ==
  /\ r \in requests
  /\ r.caller # 0
  /\ r.resp # Pending
  /\ LET p == r.caller
         ok == r.resp.kind = "ok"
         eff == IF ok THEN Resume(r) ELSE Rejected(pendingPayments, r.id)
         caught == MonitorCatch(r.id, p)
         rethrown == ~ok /\ caught.rethrown
         pass == IF ok THEN passes[p] ELSE [passes[p] EXCEPT !.failed = @ \cup {r.id}]
         run == IF rethrown
                  THEN [pass |-> [pass EXCEPT !.status = "thrown"],
                        send |-> {}]
                  ELSE PassRun(eff.index, pass, p)
     IN /\ pendingPayments' = eff.index
        /\ log' = [log EXCEPT ![r.id] = Append(@,
                     LogEntry(r, Held(pendingPayments, r.id), MapGet(eff.index, r.id),
                              IF ok THEN eff.events ELSE caught.events,
                              MapGet(eff.seen, r.id)))]
        /\ passes' = [passes EXCEPT ![p] = run.pass]
        /\ requests' = (requests \ {r}) \cup run.send
  /\ UNCHANGED <<statusMonitorInterval, isMonitoring, timers, timersCreated,
                 directCalls, remote, resultHashes, lastReport, lastCall, config>>

Next ==
  \/ CreatePaymentRequest /\ UNCHANGED besidesPm
  \/ \E id \in Ids : CheckPaymentStatus(id) /\ UNCHANGED besidesPm
  \/ \E id \in Ids, outputData \in Outputs : SubmitResult(id, outputData) /\ UNCHANGED besidesPm
  \/ \E id \in Ids : AuthorizeRefund(id) /\ UNCHANGED besidesPm
  \/ StartStatusMonitoring /\ UNCHANGED besidesPm
  \/ StopStatusMonitoring /\ UNCHANGED besidesPm
  \/ \E t \in timers : Tick(t) /\ UNCHANGED besidesPm
  \/ \E r \in requests : ServiceRespond(r) /\ UNCHANGED besidesPm
  \/ \E r \in requests : DeliverDirect(r) /\ UNCHANGED besidesPm
  \/ \E r \in requests : DeliverToPass(r) /\ UNCHANGED besidesPm

Spec == Init /\ [][Next]_vars

\* the PaymentManager with close among its operations
CloseNext ==
  \/ CreatePaymentRequest /\ UNCHANGED besidesPm
  \/ \E id \in Ids : CheckPaymentStatus(id) /\ UNCHANGED besidesPm
  \/ \E id \in Ids, outputData \in Outputs : SubmitResult(id, outputData) /\ UNCHANGED besidesPm
  \/ \E id \in Ids : AuthorizeRefund(id) /\ UNCHANGED besidesPm
  \/ StartStatusMonitoringUpTo(MaxStarts) /\ UNCHANGED besidesPm
  \/ StopStatusMonitoring /\ UNCHANGED besidesPm
  \/ Close /\ UNCHANGED besidesPm
  \/ \E t \in timers : Tick(t) /\ UNCHANGED besidesPm
  \/ \E r \in requests : ServiceRespond(r) /\ UNCHANGED besidesPm
  \/ \E r \in requests : DeliverDirect(r) /\ UNCHANGED besidesPm
  \/ \E r \in requests : DeliverToPass(r) /\ UNCHANGED besidesPm

CloseSpec == Init /\ [][CloseNext]_vars

\* a response that has arrived is handed to the method that awaits it: the
\* event loop runs the continuation of a settled promise. Nothing makes the
\* settlement service answer, and ApiClient.post sets no deadline on its fetch
\* (api-client.ts:78-82), so a request may stay pending for ever.
Delivery ==
  \E r \in requests : (DeliverDirect(r) \/ DeliverToPass(r)) /\ UNCHANGED besidesPm

LiveSpec == Spec /\ WF_vars(Delivery)

\* the credential vault on its own
VaultSpec == Init /\ [][VaultNext]_vars

\* the credential vault on files whose permissions change outside it
PermSpec == Init /\ [][PermNext]_vars

\* withRetry on its own
RetrySpec == Init /\ [][RetryNext]_vars

\* MasumiPaymentClient.request on its own
ClientSpec == Init /\ [][ClientNext]_vars

\* encrypt and decrypt on their own
CipherSpec == Init /\ [][CipherNext]_vars

\* the hash functions on their own
HashSpec == Init /\ [][HashNext]_vars

\* the index and a caller that holds what the manager handed out
ViewSpec == Init /\ [][ViewNext]_vars

\* the payment tools, one call at a time
ToolSpec == Init /\ [][ToolNext]_vars

\* waitForPaymentLocked on its own
PollSpec == Init /\ [][PollNext]_vars

\* the event loop runs the timer that is due, and request settles every fetch:
\* its deadline aborts the one that is not answered (payments.ts:216-219)
PollLiveSpec == PollSpec /\ WF_vars(PollNext)

\* one provisioning on its own
ProvisionSpec == Init /\ [][ProvisionNext]_vars

(***************************************************************************)
(* Reading the call log.                                                   *)
(***************************************************************************)
Entries(id) == {log[id][i] : i \in 1..Len(log[id])}

\* the successful checkPaymentStatus calls on a payment
Refreshes(id) == {e \in Entries(id) : e.op = "checkPaymentStatus" /\ e.ok}

EventCount(events, type) ==
  Cardinality({i \in 1..Len(events) : events[i].type = type})

Emitted(e, type) == EventCount(e.events, type) > 0

\* how many events of a type have been emitted for a payment
TotalEmitted(id, type) ==
  Cardinality({<<i, j>> \in (1..Len(log[id])) \X (1..3) :
                 /\ j <= Len(log[id][i].events)
                 /\ log[id][i].events[j].type = type})

ReportsFundsLocked(e) ==
  e.op = "checkPaymentStatus" /\ e.ok /\ e.payment.onChainState = "FundsLocked"

(***************************************************************************)
(* C2: when two checkPaymentStatus calls on the same payment complete one  *)
(* after the other and the service reported FundsLocked to both, the       *)
(* second emits no event at all, and payment:funds_locked is emitted once, *)
(* by the first (the entry not being in FundsLocked before the first).     *)
(***************************************************************************)
C2_RefreshTwiceFundsLocked ==
  \A id \in Ids : \A i \in 1..(Len(log[id]) - 1) :
    LET first == log[id][i]
        second == log[id][i + 1]
    IN (ReportsFundsLocked(first) /\ ReportsFundsLocked(second))
         => /\ second.events = <<>>
            /\ first.held # "FundsLocked"
                 => /\ EventCount(first.events, "payment:funds_locked") = 1
                    /\ EventCount(first.events \o second.events, "payment:funds_locked") = 1

C2_Witness ==
  \E id \in Ids : \E i \in 1..(Len(log[id]) - 1) :
    /\ ReportsFundsLocked(log[id][i])
    /\ ReportsFundsLocked(log[id][i + 1])
    /\ log[id][i].held # "FundsLocked"
    /\ Emitted(log[id][i], "payment:funds_locked")

(***************************************************************************)
(* C3: a successful checkPaymentStatus emits payment:state_changed if and  *)
(* only if the reported state differs from the state the index held for    *)
(* the id (no entry counting as a state of its own); payment:funds_locked  *)
(* is emitted only on a change into FundsLocked, payment:completed only on *)
(* a change into Withdrawn, and nothing else is emitted.                   *)
(***************************************************************************)
C3_SignalIffChanged ==
  \A id \in Ids : \A e \in Refreshes(id) :
    LET reported == e.payment.onChainState
        changed == reported # e.held
    IN /\ EventCount(e.events, "payment:state_changed") = (IF changed THEN 1 ELSE 0)
       /\ EventCount(e.events, "payment:funds_locked")
            = (IF changed /\ reported = "FundsLocked" THEN 1 ELSE 0)
       /\ EventCount(e.events, "payment:completed")
            = (IF changed /\ reported = "Withdrawn" THEN 1 ELSE 0)
       /\ \A i \in 1..Len(e.events) :
            /\ e.events[i].type \in {"payment:state_changed", "payment:funds_locked",
                                     "payment:completed"}
            /\ e.events[i].type = "payment:state_changed"
                 => /\ i = 1
                    /\ e.events[i].previousState = OrNull(e.held)
                    /\ e.events[i].newState = reported

C3_Witness ==
  \E id \in Ids : \E unchanged, locked, completed \in Refreshes(id) :
    /\ unchanged.held = unchanged.payment.onChainState
    /\ unchanged.events = <<>>
    /\ locked.held # "FundsLocked"
    /\ Emitted(locked, "payment:funds_locked")
    /\ completed.held # "Withdrawn"
    /\ Emitted(completed, "payment:completed")

(***************************************************************************)
(* C4: after a successful checkPaymentStatus the index entry of the id is  *)
(* exactly the record the service reported, whatever was stored before: a  *)
(* report after Withdrawn replaces the entry, a report for an id that was  *)
(* not tracked inserts it.                                                 *)
(***************************************************************************)
C4_IndexHoldsReport ==
  \A id \in Ids : \A e \in Refreshes(id) :
    /\ e.stored = e.payment
    /\ e.stored.blockchainIdentifier = id

C4_Witness ==
  \E id \in Ids : \E corrected, adopted \in Refreshes(id) :
    /\ corrected.held = "Withdrawn"
    /\ corrected.payment.onChainState \in {"RefundWithdrawn", "DisputedWithdrawn"}
    /\ corrected.stored = corrected.payment
    /\ adopted.held = Undefined
    /\ adopted.stored = adopted.payment

(***************************************************************************)
(* C5: a monitoring pass never ends by throwing; when a refresh fails, the *)
(* failure is reported as exactly one payment:monitor_error carrying the   *)
(* failing entry's id, and every other entry that was tracked and not      *)
(* completed at the start of the pass is still refreshed in that pass      *)
(* (or skipped because it had reached a completed state by then).          *)
(***************************************************************************)
MonitorErrors(id, p) ==
  {<<i, j>> \in (1..Len(log[id])) \X (1..3) :
     /\ j <= Len(log[id][i].events)
     /\ log[id][i].events[j].type = "payment:monitor_error"
     /\ log[id][i].events[j].blockchainIdentifier = id
     /\ log[id][i].events[j].error = p}

C5_MonitorIsolation ==
  \A p \in 1..Len(passes) :
    LET pass == passes[p]
    IN /\ pass.status # "thrown"
       /\ \A id \in Ids :
            Cardinality(MonitorErrors(id, p)) = (IF id \in pass.failed THEN 1 ELSE 0)
       /\ pass.status = "done"
            => \A id \in pass.startKeys : id \in pass.attempted \cup pass.skipped

C5_Witness ==
  \E p \in 1..Len(passes) : \E bad, good \in Ids :
    /\ passes[p].status = "done"
    /\ bad # good
    /\ {bad, good} \subseteq passes[p].startKeys
    /\ bad \in passes[p].failed
    /\ pendingPayments[1].key = bad
    /\ good \in passes[p].attempted
    /\ good \notin passes[p].failed
    /\ Cardinality(MonitorErrors(bad, p)) = 1
    /\ \E e \in Refreshes(good) : e.caller = p

(***************************************************************************)
(* C6: at no time are two monitoring passes in progress at once.           *)
(***************************************************************************)
RunningPasses == {p \in 1..Len(passes) : passes[p].status = "running"}

C6_NoOverlappingPasses == Cardinality(RunningPasses) <= 1

(***************************************************************************)
(* C7: once the checkPaymentStatus calls on a payment have all completed,  *)
(* the index holds the state the settlement service reported last.         *)
(***************************************************************************)
InFlight(id) == {r \in requests : r.id = id}

C7_LastReportWins ==
  \A id \in Ids :
    (/\ InFlight(id) = {}
     /\ Refreshes(id) # {}
     /\ \A e \in Entries(id) : e.op = "checkPaymentStatus")
      => Held(pendingPayments, id) = lastReport[id]

(***************************************************************************)
(* C8: every change of the state stored for a tracked payment is announced *)
(* by a payment:state_changed event whose previousState is the state held  *)
(* immediately before and whose newState is the state stored.              *)
(***************************************************************************)
C8_EventsLinearizeStates ==
  \A id \in Ids : \A e \in Entries(id) :
    (e.ok /\ e.held # Undefined /\ e.held # e.stored.onChainState)
      => \E i \in 1..Len(e.events) :
           /\ e.events[i].type = "payment:state_changed"
           /\ e.events[i].previousState = OrNull(e.held)
           /\ e.events[i].newState = e.stored.onChainState

(***************************************************************************)
(* C9: for a payment whose on-chain state only advances (FundsLocked, then *)
(* ResultSubmitted, then Withdrawn), payment:funds_locked is emitted at    *)
(* most once, whatever requests are in flight at the same time.            *)
(***************************************************************************)
C9_FundsLockedOnce ==
  \A id \in Ids :
    (/\ remote[id] \in {Null, "FundsLocked", "ResultSubmitted", "Withdrawn"}
     /\ \A e \in Entries(id) : e.op \in {"checkPaymentStatus", "submitResult"})
      => TotalEmitted(id, "payment:funds_locked") <= 1

(***************************************************************************)
(* C10: submitResult for an id that is not in the index throws before any  *)
(* request is sent, leaves the index unchanged and emits no event.         *)
(***************************************************************************)
C10_SubmitUntrackedFails ==
  [][\A id \in Ids :
       (/\ directCalls' = directCalls + 1
        /\ lastCall'.op = "submitResult"
        /\ lastCall'.id = id
        /\ ~MapHas(pendingPayments, id))
         => /\ lastCall'.threw
            /\ requests' = requests
            /\ pendingPayments' = pendingPayments
            /\ log' = log]_vars

C10_Witness ==
  /\ lastCall.op = "submitResult"
  /\ lastCall.threw
  /\ ~MapHas(pendingPayments, lastCall.id)
  /\ InFlight(lastCall.id) = {}

(***************************************************************************)
(* C1: no credential file in persistent storage contains the plaintext     *)
(* recovery phrase (mnemonic).                                             *)
(***************************************************************************)
PlaintextOnDisk(k) ==
  /\ files[k].exists
  /\ \/ files[k].content.mnemonic \in Mnemonics
     \/ files[k].content.walletAddress \in Mnemonics
     \/ files[k].content.walletVkey \in Mnemonics
     \/ files[k].content.apiKey \in Mnemonics
     \/ files[k].content.registryUrl \in Mnemonics

C1_NoPlaintextMnemonicOnDisk == \A k \in CredKeys : ~PlaintextOnDisk(k)

(***************************************************************************)
(* C11: the submitResultHash that submitResult sends is the decision hash: *)
(* the tracked entry's input digest followed by the output digest, 128 hex *)
(* characters, the output digest being computed from the output payload    *)
(* and the identifierFromPurchaser stored in the tracked entry.            *)
(***************************************************************************)
SubmitsSent == {r \in requests' \ requests : r.op = "submitResult"}

C11_SubmitsDecisionHash ==
  [][\A r \in SubmitsSent :
       LET existingPayment == MapGet(pendingPayments, r.id)
       IN /\ HexLength(r.body.submitResultHash) = 128
          /\ \E outputData \in Outputs :
               r.body.submitResultHash
                 = existingPayment.inputHash
                   \o <<Sha256(PreImage(existingPayment.identifierFromPurchaser,
                                        JsonEscape(outputData)))>>]_vars

(***************************************************************************)
(* C12: createPaymentRequest without a configured agentIdentifier throws   *)
(* before any request is sent (index and events untouched); with the       *)
(* identity configured and the request successful, the returned record is  *)
(* stored under its blockchainIdentifier and payment:created is emitted    *)
(* exactly once, the entry being in the index when it is emitted.          *)
(***************************************************************************)
Created(id) == {e \in Entries(id) : e.op = "createPaymentRequest" /\ e.ok}

C12_CreateNeedsIdentity ==
  [][/\ (/\ directCalls' = directCalls + 1
          /\ lastCall'.op = "createPaymentRequest"
          /\ config.agentIdentifier = Unset)
           => /\ lastCall'.threw
              /\ requests' = requests
              /\ pendingPayments' = pendingPayments
              /\ log' = log
     /\ \A id \in Ids : \A e \in Created(id)' :
          /\ config.agentIdentifier # Unset
          /\ e.payment.blockchainIdentifier = id
          /\ e.stored = e.payment
          /\ e.seen = e.payment
          /\ e.events = <<Event("payment:created", id, Null, Null, 0)>>]_vars

C12_Witness ==
  /\ config.agentIdentifier = Unset
  /\ lastCall.op = "createPaymentRequest"
  /\ lastCall.threw
  /\ requests = {}

\* the other case of C12: a payment created with the identity configured
C12_CreatedStored ==
  \E id \in Ids : \E e \in Created(id) :
    /\ config.agentIdentifier \in Agents
    /\ MapGet(pendingPayments, id) = e.payment

(***************************************************************************)
(* C13: when the request of createPaymentRequest, checkPaymentStatus,      *)
(* submitResult or authorizeRefund fails, the index is exactly what it was *)
(* before the failure reached the method, and none of payment:created,     *)
(* payment:state_changed, payment:funds_locked, payment:completed,         *)
(* payment:result_submitted, payment:refund_authorized is emitted.         *)
(***************************************************************************)
SuccessEvents ==
  {"payment:created", "payment:state_changed", "payment:funds_locked",
   "payment:completed", "payment:result_submitted", "payment:refund_authorized"}

\* the requests whose failure reaches their caller in this step
FailuresDelivered == {r \in requests \ requests' : r.resp.kind = "error"}

C13_FailureLeavesIndex ==
  [][FailuresDelivered # {}
       => /\ pendingPayments' = pendingPayments
          /\ \A id \in Ids : \A i \in (Len(log[id]) + 1)..Len(log'[id]) :
               /\ ~log'[id][i].ok
               /\ log'[id][i].stored = MapGet(pendingPayments, id)
               /\ \A j \in 1..Len(log'[id][i].events) :
                    log'[id][i].events[j].type \notin SuccessEvents]_vars

C13_Witness ==
  \E id \in Ids : \E failed \in Entries(id) :
    /\ ~failed.ok
    /\ failed.op = "submitResult"
    /\ failed.held # Undefined
    /\ failed.stored.onChainState = failed.held
    /\ failed.stored = MapGet(pendingPayments, id)
    /\ failed.events = <<>>

(***************************************************************************)
(* C14: a server error on a request of createPaymentRequest,               *)
(* checkPaymentStatus or submitResult is retried inside the request client *)
(* and reaches the PaymentManager only after the maximum attempt count     *)
(* (3 by default) is used up; the PaymentManager itself sends no request   *)
(* again.                                                                  *)
(***************************************************************************)
ServerErrors(id) ==
  {e \in Entries(id) :
     /\ ~e.ok
     /\ e.status >= 500
     /\ e.op \in {"createPaymentRequest", "checkPaymentStatus", "submitResult"}}

C14_ClientRetriesServerErrors ==
  \A id \in Ids : \A e \in ServerErrors(id) : e.fetches = DefaultMaxRetries

(***************************************************************************)
(* Reading a call of withRetry.                                            *)
(***************************************************************************)
Is4xx(error) ==
  error.name = "ApiError" /\ error.statusCode \in 400..499

Is5xx(error) ==
  error.name = "ApiError" /\ error.statusCode \in 500..599

\* fn failed on every call so far, never with a client error
NoClientError == \A i \in 1..Len(retry.errors) : ~Is4xx(retry.errors[i])

RECURSIVE SumOf(_)
SumOf(seq) == IF seq = <<>> THEN 0 ELSE Head(seq) + SumOf(Tail(seq))

(***************************************************************************)
(* C15: withRetry with an fn that fails with a server error on every call  *)
(* invokes fn exactly maxRetries times and then rejects with the last      *)
(* error; when fn succeeds on attempt k, fn has been invoked exactly k     *)
(* times and the result of that attempt is returned.                       *)
(***************************************************************************)
C15_RetryBound ==
  /\ (retry.status = "rejected" /\ NoClientError)
       => /\ retry.calls = retry.maxRetries
          /\ Len(retry.errors) = retry.maxRetries
          /\ retry.errors # <<>> => retry.error = retry.errors[Len(retry.errors)]
  /\ retry.status = "resolved"
       => /\ retry.calls = Len(retry.errors) + 1
          /\ retry.calls <= retry.maxRetries
          /\ retry.value = retry.returned

C15_Witness ==
  /\ retry.status = "rejected"
  /\ retry.maxRetries = 3
  /\ retry.calls = 3
  /\ retry.errors = <<FetchError, ApiError(500), ApiError(500)>>
  /\ retry.error = ApiError(500)

\* the other case of C15: fn succeeds on its third attempt
C15_ResolvedThird ==
  /\ retry.status = "resolved"
  /\ retry.maxRetries = 3
  /\ retry.calls = 3
  /\ retry.value = "v2"

(***************************************************************************)
(* C16: in withRetry no delay precedes the first attempt, the delay after  *)
(* failed attempt a (counted from 0) is initialDelayMs * 2^a, no delay     *)
(* follows the last failed attempt, and a call that fails every time with  *)
(* a retriable error has waited initialDelayMs * (2^(maxRetries-1) - 1)    *)
(* in total when it rejects.                                               *)
(***************************************************************************)
C16_BackoffDelays ==
  /\ \A i \in 1..Len(retry.delays) :
       retry.delays[i] = retry.initialDelayMs * Pow2(i - 1)
  /\ retry.calls <= 1 /\ retry.status # "waiting" => retry.delays = <<>>
  /\ retry.status \in {"calling", "resolved", "rejected"} /\ retry.calls > 0
       => Len(retry.delays) = retry.calls - 1
  /\ retry.status = "waiting" => Len(retry.delays) = retry.calls
  /\ (retry.status = "rejected" /\ NoClientError /\ retry.maxRetries >= 1)
       => SumOf(retry.delays) = retry.initialDelayMs * (Pow2(retry.maxRetries - 1) - 1)

C16_Witness ==
  /\ retry.status = "rejected"
  /\ retry.maxRetries = 3
  /\ retry.initialDelayMs = 1000
  /\ NoClientError
  /\ retry.delays = <<1000, 2000>>

C18_RequestsTerminate ==
  /\ \A id \in Ids \cup {"new"} : (InFlight(id) # {}) ~> (InFlight(id) = {})
  /\ \A p \in 1..MaxTicks :
       (Len(passes) >= p /\ passes[p].status = "running")
         ~> (Len(passes) >= p /\ passes[p].status = "done")

(***************************************************************************)
(* C19: in MasumiPaymentClient.request a call that exceeds the per-call    *)
(* deadline is aborted and returned as an error value classified as a      *)
(* timeout, which is not the classification of a connection failure, and   *)
(* on every return path the deadline timer has been cancelled.             *)
(***************************************************************************)
Returned == client.status = "returned"

\* a call that went past its deadline was aborted and returns the timeout error
DeadlineAborts ==
  (Returned /\ client.elapsed)
    => /\ client.aborted
       /\ client.result = Err("network_error", "Request timeout")

\* the timeout error is returned for aborted calls only, the connection
\* error for calls that were not aborted
TimeoutDistinct ==
  Returned
    => /\ client.result.error.type = "network_error" => client.aborted
       /\ client.result.error.type = "service_unavailable" => ~client.aborted

\* no timer is left set when the call returns
TimerCancelled == Returned => client.timer \in {"cleared", "fired"}

C19_DeadlineAbortsCall == DeadlineAborts /\ TimeoutDistinct /\ TimerCancelled

(***************************************************************************)
(* C20: stopStatusMonitoring called when no monitoring is active changes   *)
(* nothing; after any call there is no timer and isMonitoring is false, so *)
(* a second call in a row finds nothing to do and leaves the state of the  *)
(* first.                                                                  *)
(***************************************************************************)
NotMonitoring == statusMonitorInterval = 0 /\ ~isMonitoring

C20_StopIdempotent ==
  [][StopStatusMonitoring
       => /\ NotMonitoring => UNCHANGED vars
          /\ NotMonitoring'
          /\ timers' = {}
          /\ UNCHANGED <<pendingPayments, passes, requests, log>>]_vars

C20_Witness ==
  /\ timersCreated = 1
  /\ NotMonitoring
  /\ timers = {}

(***************************************************************************)
(* C21: stopStatusMonitoring called while a refresh of a monitoring pass is *)
(* in flight cancels the future ticks and leaves that refresh alone: no    *)
(* pass starts once the timer is cleared; a response that has arrived for  *)
(* the refresh is handed to checkPaymentStatus whether monitoring is on or *)
(* not, and the refresh then replaces the index entry with the reported    *)
(* record and emits the events of a refresh.                               *)
(***************************************************************************)
NoTickAfterStop ==
  [][Len(passes') > Len(passes) => statusMonitorInterval # 0 /\ isMonitoring]_vars

StoppedRefreshApplies ==
  [][\A r \in requests \ requests' :
       (r.caller # 0 /\ r.resp.kind = "ok" /\ NotMonitoring)
         => LET eff == CheckPaymentStatusResume(pendingPayments, r.id, r.resp.payment)
            IN /\ MapGet(pendingPayments', r.id) = r.resp.payment
               /\ Len(log'[r.id]) = Len(log[r.id]) + 1
               /\ log'[r.id][Len(log'[r.id])].events = eff.events
               /\ log'[r.id][Len(log'[r.id])].seen = r.resp.payment]_vars

\* the continuation of an answered refresh can run when monitoring is off
\* (with LiveSpec's fairness of Delivery it then does run)
StoppedRefreshCanComplete ==
  [][\A r \in requests :
       (NotMonitoring /\ r.caller # 0 /\ r.resp # Pending)
         => ENABLED (DeliverToPass(r) /\ UNCHANGED besidesPm)]_vars

C21_StopLeavesRefresh ==
  NoTickAfterStop /\ StoppedRefreshApplies /\ StoppedRefreshCanComplete

\* monitoring was stopped while the refresh of a pass had its answer on the
\* way, and the answer differs from what the index holds
C21_Witness ==
  /\ NotMonitoring
  /\ timersCreated > 0
  /\ \E r \in requests :
       /\ r.caller # 0
       /\ r.resp.kind = "ok"
       /\ passes[r.caller].status = "running"
       /\ r.resp.payment.onChainState # Held(pendingPayments, r.id)

(***************************************************************************)
(* C22: a monitoring pass visits every entry of the index once. When it    *)
(* reaches an entry whose stored state is Withdrawn, RefundWithdrawn or    *)
(* DisputedWithdrawn it skips it; when it reaches any other entry, one     *)
(* with a null state included, it calls checkPaymentStatus for it, once.   *)
(* When the pass ends, every entry of the index was refreshed or skipped.  *)
(***************************************************************************)
SentByPass == {r \in requests' \ requests : r.caller # 0 /\ r.resp = Pending}

Terminal(m, id) == MapGet(m, id).onChainState \in completedStates

C22_PassRefreshesLive ==
  [][/\ \A r \in SentByPass :
          /\ r.op = "checkPaymentStatus"
          /\ MapHas(pendingPayments', r.id)
          /\ ~Terminal(pendingPayments', r.id)
          /\ r.id \in passes'[r.caller].attempted
          /\ r.caller <= Len(passes) => r.id \notin passes[r.caller].attempted
     /\ \A p \in 1..Len(passes') :
          LET old == IF p <= Len(passes) THEN passes[p] ELSE NewPass
              new == passes'[p]
          IN /\ \A id \in new.skipped \ old.skipped : Terminal(pendingPayments', id)
             /\ \A id \in new.attempted \ old.attempted :
                  \E r \in SentByPass : r.caller = p /\ r.id = id
             /\ Cardinality(new.attempted \ old.attempted) <= 1
             /\ new.attempted \cap new.skipped = {}
             /\ (new.status = "done" /\ old.status # "done")
                  => MapKeys(pendingPayments') = new.attempted \cup new.skipped]_vars

\* a pass that ended after it skipped a completed entry and refreshed an
\* entry that was not on chain yet
C22_Witness ==
  \E p \in 1..Len(passes) :
    /\ passes[p].status = "done"
    /\ \E id \in passes[p].skipped : Terminal(pendingPayments, id)
    /\ \E id \in passes[p].attempted : \E e \in Entries(id) :
         e.caller = p /\ e.held = Null

(***************************************************************************)
(* C23: decrypt(encrypt(s)) = s for every string s when the blob is the    *)
(* one encrypt returned and the encryption key is the same, so that        *)
(* loadCredentials returns the mnemonic saveCredentials was given.         *)
(***************************************************************************)
SameKey == GetEncryptionKey(encryptionKey) = GetEncryptionKey(cipher.env)

ChangedFields == {field \in Fields : cipher.blob[field] # cipher.original[field]}

C23_VaultRoundTrip ==
  (cipher.status = "decrypted" /\ ChangedFields = {} /\ SameKey)
    => cipher.result.ok /\ cipher.result.plaintext = cipher.plaintext

(***************************************************************************)
(* C24: decrypting a blob whose salt, iv, tag or ciphertext was altered,   *)
(* or decrypting under another key than the one of encrypt, raises an      *)
(* error, in decrypt and in loadCredentials; and whenever decrypt or       *)
(* loadCredentials returns a string, it is the plaintext encrypt was given. *)
(***************************************************************************)
\* loadCredentials on a credential file whose encryptedMnemonic is the blob
LoadedFromBlob ==
  LET k == CHOOSE key \in CredKeys : TRUE
      storedCreds == StoredCredentials(k[1], k[2], CHOOSE w \in Wallets : TRUE,
                                       cipher.blob, NoString, NoString, 1)
  IN LoadCredentials([key \in CredKeys |-> File(storedCreds, "0600")], k, encryptionKey)

TamperDetected ==
  (cipher.status = "decrypted" /\ (ChangedFields # {} \/ ~SameKey))
    => ~cipher.result.ok /\ ~LoadedFromBlob.ok

ReturnsOriginal ==
  cipher.status = "decrypted"
    => /\ cipher.result.ok => cipher.result.plaintext = cipher.plaintext
       /\ LoadedFromBlob.ok => LoadedFromBlob.creds.mnemonic = cipher.plaintext

C24_AlteredBlobRaises == TamperDetected /\ ReturnsOriginal

\* no surrogate without its partner
RECURSIVE WellFormed(_)
WellFormed(str) ==
  IF str = <<>>
    THEN TRUE
    ELSE IF Head(str) = HighSurrogate /\ Len(str) > 1 /\ str[2] = LowSurrogate
      THEN WellFormed(Tail(Tail(str)))
      ELSE Head(str) \notin {HighSurrogate, LowSurrogate} /\ WellFormed(Tail(str))

\* the round trip of the strings that have a UTF-8 form
WellFormedRoundTrip ==
  (cipher.status = "decrypted" /\ ChangedFields = {} /\ SameKey /\ WellFormed(cipher.plaintext))
    => cipher.result.ok /\ cipher.result.plaintext = cipher.plaintext

(***************************************************************************)
(* C25: the pre-image is unambiguous: whatever purchaser identifier and    *)
(* payload a hash function was called with, no other pair of identifier    *)
(* and payload gives the same pre-image, for createMasumiOutputHash and    *)
(* for createMasumiInputHash.                                              *)
(***************************************************************************)
\* the string that was hashed
HashedPreImage(hash) == hash[1].sha256

C25_PreImageUnambiguous ==
  /\ hashing.fn = "output"
       => \A id \in PurchaserIds, outputData \in OutputStrings :
            <<id, outputData>> # <<hashing.identifierFromPurchaser, hashing.outputData>>
              => HashedPreImage(createMasumiOutputHash(outputData, id))
                   # HashedPreImage(hashing.hash)
  /\ hashing.fn = "input"
       => \A id \in PurchaserIds, inputData \in InputObjects :
            (id # hashing.identifierFromPurchaser \/ inputData # hashing.inputData)
              => HashedPreImage(createMasumiInputHash(inputData, id))
                   # HashedPreImage(hashing.hash)

Escaped == {"\"", "\\", "\n"}

\* the body of a JSON string: no bare quote or line feed, a backslash only
\* in front of a quote, a backslash or n
RECURSIVE JsonBody(_)
JsonBody(str) ==
  IF str = <<>>
    THEN TRUE
    ELSE IF Head(str) = "\\"
      THEN Len(str) > 1 /\ str[2] \in {"\"", "\\", "n"} /\ JsonBody(Tail(Tail(str)))
      ELSE Head(str) \notin {"\"", "\n"} /\ JsonBody(Tail(str))

\* what a JSON parser reads from the body of a string
RECURSIVE JsonParse(_)
JsonParse(str) ==
  IF str = <<>>
    THEN <<>>
    ELSE IF Head(str) = "\\" /\ Len(str) > 1
      THEN <<IF str[2] = "n" THEN "\n" ELSE str[2]>> \o JsonParse(Tail(Tail(str)))
      ELSE <<Head(str)>> \o JsonParse(Tail(str))

StoredResultHash(m, id) == MapGet(m, id).resultHash

C27_HashImmutable ==
  [][\A id \in Ids :
       (/\ MapHas(pendingPayments, id)
        /\ MapHas(pendingPayments', id)
        /\ StoredResultHash(pendingPayments, id) # NoString)
         => StoredResultHash(pendingPayments', id) = StoredResultHash(pendingPayments, id)]_vars

(***************************************************************************)
(* C28: the state stored for a tracked payment never moves back along the  *)
(* lifecycle no funds, FundsLocked, ResultSubmitted, Withdrawn; the only    *)
(* moves off that line are the moves into the refund branches.             *)
(***************************************************************************)
RefundBranches == {"RefundWithdrawn", "DisputedWithdrawn"}

LifecycleRank(state) ==
  CASE state = Null              -> 0
    [] state = "FundsLocked"     -> 1
    [] state = "ResultSubmitted" -> 2
    [] state = "Withdrawn"       -> 3
    [] state \in RefundBranches  -> 4

C28_StoredStateMonotonic ==
  [][\A id \in Ids :
       (MapHas(pendingPayments, id) /\ MapHas(pendingPayments', id))
         => LifecycleRank(Held(pendingPayments', id))
              >= LifecycleRank(Held(pendingPayments, id))]_vars

(***************************************************************************)
(* C29: nothing a caller does with what the manager handed out (setting or *)
(* deleting keys of the Map from getPendingPayments, assigning fields of a *)
(* record from getPayment, a return value or an event) changes what the    *)
(* index holds.                                                            *)
(***************************************************************************)
CallerSteps == {"caller:set", "caller:delete", "caller:write"}

\* what the index holds: its keys in order, each with the record stored
IndexContents(v) ==
  [i \in 1..Len(v.index) |-> [key |-> v.index[i].key, value |-> v.heap[v.index[i].value]]]

C29_CallersSeeCopies ==
  [][view'.step \in CallerSteps => IndexContents(view') = IndexContents(view)]_vars

\* the part about the Map: its keys are the caller's own
MapCopyIsolated ==
  [][view'.step \in {"caller:set", "caller:delete"}
       => IndexContents(view') = IndexContents(view)]_vars

(***************************************************************************)
(* C30: once a credential record exists for (agentIdentifier, network), no *)
(* vault operation that leaves it in place changes its walletAddress,      *)
(* walletVkey, encryptedMnemonic or createdAt, and updateCredentials       *)
(* changes no field other than apiKey, registryUrl and updatedAt.          *)
(***************************************************************************)
FixedFields == {"walletAddress", "walletVkey", "encryptedMnemonic", "createdAt"}

UpdatableFields == {"apiKey", "registryUrl", "updatedAt"}

\* the fields of the record stored under k that the step changes
FieldsChanged(k) ==
  {f \in DOMAIN files[k].content : files'[k].content[f] # files[k].content[f]}

UpdateStep(k) ==
  \E updates \in [apiKey : ApiKeys \cup {Keep}, registryUrl : RegistryUrls \cup {Keep}] :
    UpdateCredentials(k[1], k[2], updates)

C30_RecordFixedOnceCreated ==
  [][\A k \in CredKeys :
       (files[k].exists /\ files'[k].exists)
         => /\ FieldsChanged(k) \cap FixedFields = {}
            /\ UpdateStep(k) => FieldsChanged(k) \subseteq UpdatableFields]_vars

\* the first part for the steps of updateCredentials alone
UpdateKeepsFixedFields ==
  [][\A k \in CredKeys :
       (files[k].exists /\ files'[k].exists /\ UpdateStep(k))
         => FieldsChanged(k) \cap FixedFields = {}]_vars

(***************************************************************************)
(* C31: when saveCredentials, updateCredentials or importCredentials has   *)
(* written a credential file, the file has permissions 0600, whatever      *)
(* permissions it had before.                                              *)
(***************************************************************************)
SaveStep(k) ==
  \E w \in Wallets, key \in ApiKeys, url \in RegistryUrls :
    SaveCredentials(k[1], k[2], w, key, url)

ImportStep(k) ==
  \E json \in exported :
    /\ <<json.agentIdentifier, json.network>> = k
    /\ ImportCredentials(json)

UpdateWrote(k) == UpdateStep(k) /\ files'[k] # files[k]

C31_WrittenFileOwnerOnly ==
  [][\A k \in CredKeys :
       (SaveStep(k) \/ UpdateWrote(k) \/ ImportStep(k)) => files'[k].mode = "0600"]_vars

\* the same for saveCredentials and importCredentials alone
SaveAndImportOwnerOnly ==
  [][\A k \in CredKeys : (SaveStep(k) \/ ImportStep(k)) => files'[k].mode = "0600"]_vars

(***************************************************************************)
(* C32: masumi_complete_payment called with the identifier of a payment    *)
(* that masumi_create_payment created or masumi_check_payment checked      *)
(* sends a submit-result request and, unless the settlement service        *)
(* rejects it, returns success: true.                                      *)
(***************************************************************************)
C32_CompleteSubmits ==
  (/\ tool.result.name = "masumi_complete_payment"
   /\ tool.result.known
   /\ ~tool.result.rejected)
    => (tool.result.sent /\ tool.result.success)

\* what masumi_complete_payment does instead: it never sends a request
CompleteNeverSends ==
  tool.result.name = "masumi_complete_payment"
    => (~tool.result.sent /\ ~tool.result.success)

(***************************************************************************)
(* C33: the two pollers handle a RefundWithdrawn report differently:       *)
(* waitForPaymentLocked stops at the first such report and returns ok:     *)
(* false with error type payment_failed; checkPaymentStatus of the         *)
(* PaymentManager replaces the entry and emits payment:state_changed,      *)
(* raises nothing and no payment:monitor_error is emitted.                 *)
(***************************************************************************)
LastReport == wait.reports[Len(wait.reports)]

EarlierReports == {wait.reports[i] : i \in 1..(Len(wait.reports) - 1)}

EventTypes(events) == {events[i].type : i \in 1..Len(events)}

RefundReported == wait.reports # <<>> /\ LastReport = "RefundWithdrawn"

C33_RefundHandledDifferently ==
  RefundReported
    => /\ wait.status = "returned"
       /\ ~wait.result.ok
       /\ wait.result.error.type = "payment_failed"
       /\ "RefundWithdrawn" \notin EarlierReports
       /\ Held(wait.index, WaitedId) = "RefundWithdrawn"
       /\ ~wait.threw
       /\ \E i \in 1..Len(wait.events) :
            /\ wait.events[i].type = "payment:state_changed"
            /\ wait.events[i].newState = "RefundWithdrawn"
       /\ "payment:monitor_error" \notin EventTypes(wait.events)

\* a refund reported in the middle of the polling
C33_Witness ==
  /\ RefundReported
  /\ Len(wait.reports) >= 2
  /\ wait.status = "returned"
  /\ wait.result.error = PaymentRefunded.error

(***************************************************************************)
(* C34: waitForPaymentLocked always returns, and with exactly one of four  *)
(* outcomes: ok with the status record, only when its last poll reported   *)
(* FundsLocked; the error of the status request, at the first poll that    *)
(* fails; payment_failed at the first RefundWithdrawn report; timeout once *)
(* maxWaitMs has elapsed without any of these, also when every poll        *)
(* reported ResultSubmitted or Withdrawn.                                  *)
(***************************************************************************)
Ending == {"FundsLocked", "RefundWithdrawn", "error"}

ReturnsLocked ==
  /\ wait.result.ok
  /\ LastReport = "FundsLocked"
  /\ wait.result.data = PaymentRequest(WaitedId, "FundsLocked")

ReturnsStatusError ==
  /\ ~wait.result.ok
  /\ LastReport = "error"
  /\ wait.result.error \in {e.error : e \in StatusErrors}

ReturnsRefunded ==
  /\ ~wait.result.ok
  /\ LastReport = "RefundWithdrawn"
  /\ wait.result.error = PaymentRefunded.error

ReturnsTimeout ==
  /\ ~wait.result.ok
  /\ wait.result.error = WaitTimeout.error
  /\ wait.elapsed >= wait.maxWaitMs
  /\ wait.reports # <<>> => LastReport \notin Ending

WaitOutcomes ==
  /\ wait.status = "returned"
       => /\ EarlierReports \cap Ending = {}
          /\ IF wait.reports = <<>>
               THEN ReturnsTimeout
               ELSE CASE LastReport = "FundsLocked"     -> ReturnsLocked
                      [] LastReport = "error"           -> ReturnsStatusError
                      [] LastReport = "RefundWithdrawn" -> ReturnsRefunded
                      [] OTHER                          -> ReturnsTimeout
  /\ wait.status \in {"polling", "sleeping"}
       => {wait.reports[i] : i \in 1..Len(wait.reports)} \cap Ending = {}

C35_IndexKeyConsistent ==
  \A i \in 1..Len(pendingPayments) :
    pendingPayments[i].value.blockchainIdentifier = pendingPayments[i].key

\* an entry created by createPaymentRequest and replaced by submitResult
C35_Witness ==
  \E id \in Ids :
    /\ MapHas(pendingPayments, id)
    /\ \E i, j \in 1..Len(log[id]) :
         /\ i < j
         /\ log[id][i].op = "createPaymentRequest" /\ log[id][i].ok
         /\ log[id][j].op = "submitResult" /\ log[id][j].ok

(***************************************************************************)
(* C36: under startStatusMonitoring, stopStatusMonitoring and close at     *)
(* most one polling timer is registered and isMonitoring is true exactly   *)
(* when one is; while monitoring is on no timer is registered and the      *)
(* timer and the interval handle stay the same; a start while monitoring   *)
(* is off registers exactly one new timer.                                 *)
(***************************************************************************)
OneTimer ==
  /\ Cardinality(timers) <= 1
  /\ isMonitoring <=> timers # {}
  /\ isMonitoring => timers = {statusMonitorInterval}

StartKeepsTimer ==
  isMonitoring
    => /\ timersCreated' = timersCreated
       /\ isMonitoring' => (timers' = timers /\ statusMonitorInterval' = statusMonitorInterval)

StartAfterStop ==
  (~isMonitoring /\ isMonitoring')
    => /\ timersCreated' = timersCreated + 1
       /\ timers' = {timersCreated'}
       /\ statusMonitorInterval' = timersCreated'

C36_OneTimerWhileMonitoring ==
  /\ []OneTimer
  /\ [][StartKeepsTimer /\ StartAfterStop]_vars

\* monitoring started again after a close
C36_Witness ==
  /\ isMonitoring
  /\ timersCreated = 2
  /\ lastCall.op = "close"

(***************************************************************************)
(* C37: after close the index is empty and stays empty until the next      *)
(* operation is called, also when a request issued before the close        *)
(* completes afterwards.                                                   *)
(***************************************************************************)
C37_ClosedStaysEmpty == lastCall.op = "close" => pendingPayments = <<>>

\* what close does by itself: the index is empty right after it
CloseClears == [][lastCall'.op = "close" /\ lastCall' # lastCall => pendingPayments' = <<>>]_vars

(***************************************************************************)
(* C38: once stopStatusMonitoring has returned no monitoring pass sends a  *)
(* checkPaymentStatus request: a pass in progress does not go on to the    *)
(* entries it had not reached.                                             *)
(***************************************************************************)
C38_NoRefreshAfterStop == [][~isMonitoring => SentByPass = {}]_vars

(***************************************************************************)
(* C39: provision runs resolve identity, generate wallet, register agent,  *)
(* store credentials in that order, and when it fails after the wallet was *)
(* generated (the registration failed) a credential record holding that    *)
(* wallet's encrypted recovery phrase exists.                              *)
(***************************************************************************)
ProvisionOrder == <<"resolveIdentity", "provisionWallet", "registerAgent", "secureStore">>

\* the steps run so far, but for the optional linking, are the first ones of the order
StepsInOrder ==
  LET done == SelectSeq(provision.steps, LAMBDA step : step # "linkMoltBook")
  IN /\ Len(done) <= Len(ProvisionOrder)
     /\ done = SubSeq(ProvisionOrder, 1, Len(done))

\* a credential file holds the generated wallet with its phrase encrypted
PhraseStored ==
  \E k \in CredKeys :
    /\ files[k].exists
    /\ files[k].content.walletAddress = provision.wallet.walletAddress
    /\ Decrypt(files[k].content.encryptedMnemonic, encryptionKey)
         = [ok |-> TRUE, plaintext |-> provision.wallet.mnemonic]

FailedAfterWallet == provision.pc = "rejected" /\ provision.wallet # NoWallet

C39_PhraseStoredBeforeFailure == StepsInOrder /\ (FailedAfterWallet => PhraseStored)

\* with the configuration registerAgent builds, the RegistryManager is never
\* constructed: no provisioning registers an agent, stores a record or returns
ProvisionNeverStores ==
  /\ StepsInOrder
  /\ provision.pc \notin {"registry", "linkMoltBook", "secureStore", "returned"}
  /\ \A k \in CredKeys : ~files[k].exists

=============================================================================
